---------------------------- MODULE Spec2Model ----------------------------
(***************************************************************************)
(* Change detection over ETF holdings snapshots: the snapshot store        *)
(* (src/src/database.py), the change detector and batch analyzer           *)
(* (src/src/holdings_analyzer.py), the report renderers                    *)
(* (src/src/holdings_analyzer.py, src/src/report_generator.py), the report  *)
(* manager with its index (src/src/report_manager.py) and the run of the   *)
(* issuers' updates (src/main.py).                                         *)
(*                                                                         *)
(* Python values are modelled as follows.                                  *)
(*   - None is the empty tuple <<>>, a present optional value v is <<v>>.  *)
(*   - A list is a sequence.  A dict is a sequence of its items in         *)
(*     insertion order with pairwise different keys.                       *)
(*   - A date string 'YYYY-MM-DD' is the number of its day: the zero       *)
(*     padded ISO form makes string order and day order coincide.          *)
(*   - A float that holds a number of lots is a binary64 value next to the *)
(*     grid of hundredths.  It is the record [c, err, k] that stands for   *)
(*     the exact rational  c/100 - err/(100 * 2^k):  c is the number of    *)
(*     hundredths the value was rounded from, 2^-k is the unit in the last *)
(*     place and err the (signed) rounding error in units of 2^-k / 100.   *)
(*     Zero is [c |-> 0, err |-> 0, k |-> 0].                              *)
(***************************************************************************)
EXTENDS Integers, Sequences, FiniteSets, TLC

VARIABLES
    holdings,            \* the rows of table holdings (database.py:43-55)
    last_write,          \* history: per key, the row last handed to INSERT OR REPLACE
    updated_count,       \* insert_holdings: existing rows counted as updated
    ret,                 \* insert_holdings: the returned count
    yesterday_holdings,  \* compare_holdings / detect_changes: the previous snapshot
    today_holdings,      \* compare_holdings / detect_changes: the current snapshot
    changes,             \* the list compare_holdings / detect_changes returned
    current_date,        \* detect_changes_batch: argument
    etf_codes,           \* detect_changes_batch: argument
    i,                   \* detect_changes_batch: number of etf_codes iterated over
    previous_date,       \* detect_changes: the baseline date looked up
    all_changes,         \* detect_changes_batch: the dict being assembled
    returned,            \* detect_changes_batch: None, or the dict handed to the caller
    pc,                  \* position of the running call
    changes_dict,        \* renderers / generate_all_reports: the ChangeSet argument
    report_date,         \* renderers: the date argument
    txt_report,          \* what generate_report returned
    md_report,           \* what generate_markdown_report returned
    data,                \* what generate_dashboard_data returned
    txt_files,           \* reports/changes_<date>.txt, per date: None or its content
    md_files,            \* reports/changes_<date>.md
    json_files,          \* docs/data_<date>.json
    html_files,          \* docs/report_<date>.html
    reports_index,       \* docs/reports_index.json: None or the list it holds
    call,                \* history: the last generate_all_reports call and how it ended
    clock,               \* the wall clock, in calls made so far
    store_call,          \* history: the list of the last insert_holdings call, the rows before it
    txn,                 \* insert_holdings: None, or the open transaction of its connection
    seen,                \* history: what a reader's last get_holdings_by_date since the call began returned
    run_day,             \* main: the day datetime.now() falls on
    args,                \* main: the flags of the command line
    issuer,              \* main: the number of the issuer whose turn it is
    etf_i,               \* daily_update_*: number of ETFs of the issuer iterated over
    log,                 \* the log: one entry per ETF updated and per error
    exit_code,           \* None while main runs, then the exit code of the process
    report_calls,        \* history: the generate_all_reports calls of the run
    etf_list             \* the etf_code column of table etf_list (database.py:31-39)

vars == <<holdings, last_write, updated_count, ret, yesterday_holdings, today_holdings, changes,
          current_date, etf_codes, i, previous_date, all_changes, returned, pc,
          changes_dict, report_date, txt_report, md_report, data, txt_files, md_files,
          json_files, html_files, reports_index, call, clock,
          store_call, txn, seen,
          run_day, args, issuer, etf_i, log, exit_code, report_calls, etf_list>>

\* the variables of the store, and those of the batch analyzer
store_vars == <<holdings, last_write, updated_count, ret>>
batch_vars == <<current_date, etf_codes, i, previous_date, all_changes, returned>>

\* the variables of the renderers, and those of the report manager
render_vars == <<changes_dict, report_date, txt_report, md_report, data>>
file_vars == <<txt_files, md_files, json_files, html_files, reports_index, call, clock>>

\* the variables of a stepwise insert_holdings and its readers, and those
\* of main
ingest_vars == <<store_call, txn, seen>>
main_vars == <<run_day, args, issuer, etf_i, log, exit_code, report_calls, etf_list>>

-----------------------------------------------------------------------------
(* Bounds and value domains *)

\* total number of rows in the two lists handed to compare_holdings
MaxRows == 3

\* number of rows in the store when a batch starts
MaxStoreRows == 4

\* length of the list handed to one insert_holdings call
MaxListLen == 2

\* number of stocks the ETFs of a rendered ChangeSet hold
MaxStocks == 12

\* number of calls of generate_all_reports in a run
MaxCalls == 2

\* the latest date _update_reports_index is called for
MaxIndexDate == 92

ETFs == {"00980A", "00981A", "00982A"}
Codes == {"2313", "3653"}
Names == {"name_a", "name_b"}
Dates == {1, 2, 3}
\* share counts: none, a tenth of a lot, three tenths, three tenths and one share
Shares == {0, 100, 300, 301}

None == <<>>
Some(v) == <<v>>

\* the dates reports are generated for
ReportDates == {1, 2}

\* no renderer has run and no report file exists
RenderIdle ==
    /\ changes_dict = <<>>
    /\ report_date = 0
    /\ txt_report = None
    /\ md_report = None
    /\ data = None

NoFiles ==
    /\ txt_files = [d \in ReportDates |-> None]
    /\ md_files = [d \in ReportDates |-> None]
    /\ json_files = [d \in ReportDates |-> None]
    /\ html_files = [d \in ReportDates |-> None]
    /\ reports_index = None
    /\ call = None
    /\ clock = 0

\* no insert_holdings is under way and no reader has read
IngestIdle ==
    /\ store_call = None
    /\ txn = None
    /\ seen = None

\* main is not running
MainIdle ==
    /\ run_day = 0
    /\ args = {}
    /\ issuer = 0
    /\ etf_i = 0
    /\ log = <<>>
    /\ exit_code = None
    /\ report_calls = <<>>
    /\ etf_list = {}

-----------------------------------------------------------------------------
(* binary64 arithmetic on numbers of lots *)

Zero == [c |-> 0, err |-> 0, k |-> 0]

Abs(x) == IF x < 0 THEN -x ELSE x
Sign(x) == IF x < 0 THEN -1 ELSE IF x > 0 THEN 1 ELSE 0

RECURSIVE ExpUp(_, _, _)
ExpUp(n, d, e) == IF n < d * 2^(e + 1) THEN e ELSE ExpUp(n, d, e + 1)

RECURSIVE ExpDown(_, _, _)
ExpDown(n, d, e) == IF n * 2^(-e) >= d THEN e ELSE ExpDown(n, d, e - 1)

\* the binary exponent of n/d > 0: the e with 2^e <= n/d < 2^(e+1)
FloorLog2(n, d) == IF n >= d THEN ExpUp(n, d, 0) ELSE ExpDown(n, d, 0)

\* 2^k modulo d, twenty doublings at a time
RECURSIVE Pow2Mod(_, _)
Pow2Mod(k, d) ==
    IF k <= 20 THEN (2^k) % d ELSE ((2^20 % d) * Pow2Mod(k - 20, d)) % d

\* The signed error of rounding n/d (n > 0) to 53 significant bits, in units
\* of 2^-k / d: the remainder of n * 2^k by d, taken to the nearest multiple.
\* A tie (remainder d/2) cannot occur for d = 100 or 1000 and k >= 3.
RoundErr(n, d, k) ==
    LET r == ((n % d) * Pow2Mod(k, d)) % d
    IN  IF 2 * r < d THEN r ELSE r - d

\* the binary64 value nearest to c/100, c >= 0 (the literal a decimal string
\* with two places parses to)
Dbl100(c) ==
    IF c = 0 THEN Zero
    ELSE LET k == 52 - FloorLog2(c, 100)
         IN  [c |-> c, err |-> RoundErr(c, 100, k), k |-> k]

\* the same for a signed number of hundredths
SDbl100(c) ==
    IF c >= 0 THEN Dbl100(c)
    ELSE LET p == Dbl100(-c) IN [c |-> c, err |-> -p.err, k |-> p.k]

\* equality of two binary64 values
FloatEq(x, y) ==
    /\ x.c = y.c
    /\ LET K == IF x.k > y.k THEN x.k ELSE y.k
       IN  x.err * 2^(K - x.k) = y.err * 2^(K - y.k)

\* x > 0 and x < 0 for a binary64 value: the error term is far smaller than a
\* hundredth, so the sign is the sign of c
FloatSign(x) == Sign(x.c)


\* shares / 1000 (holdings_analyzer.py:50): the binary64 quotient, next to the
\* grid of thousandths: [n, err, k] stands for n/1000 - err/(1000 * 2^k)
Div1000(shares) ==
    LET k == 52 - FloorLog2(shares, 1000)
    IN  [n |-> shares, err |-> RoundErr(shares, 1000, k), k |-> k]

\* round(q, 2) of a quotient q = shares / 1000 > 0: Python rounds the exact
\* binary value to two decimal places (an exact tie goes to the even digit)
\* and returns the binary64 value nearest to that decimal
Round2(q) ==
    LET h == q.n \div 10
        t == q.n % 10
        up == \/ t > 5
              \/ t = 5 /\ q.err < 0
              \/ t = 5 /\ q.err = 0 /\ h % 2 = 1
    IN  Dbl100(IF up THEN h + 1 ELSE h)

\* round(x, 2) of a value next to the grid of hundredths
RoundHundredths(x) == SDbl100(x.c)

\* The low bits of the significand of an exact difference: the x in
\* 0 .. m-1 with 25 * x = -(e4) modulo m, m a power of two
LowBits(e4, m) == CHOOSE x \in 0 .. m - 1 : (25 * x + e4) % m = 0

\* a - b in binary64, a and b next to the grid of hundredths
FloatSub(a, b) ==
    LET cd == a.c - b.c
        K == IF a.c = 0 THEN b.k ELSE IF b.c = 0 THEN a.k
             ELSE IF a.k > b.k THEN a.k ELSE b.k
        E == (IF a.c = 0 THEN 0 ELSE a.err * 2^(K - a.k))
             - (IF b.c = 0 THEN 0 ELSE b.err * 2^(K - b.k))
        s == Sign(cd)
        acd == Abs(cd)
        sE == s * E
        e0 == FloorLog2(acd, 100)
        \* |a - b| = acd/100 - sE/(100 * 2^K); when acd/100 is a power of two
        \* a positive sE puts the difference in the binade below
        isPow == IF e0 >= 0 THEN acd = 100 * 2^e0 ELSE acd * 2^(-e0) = 100
        ed == IF isPow /\ sE > 0 THEN e0 - 1 ELSE e0
        kd == 52 - ed
        sh == K - kd
        low == LowBits(sE \div 4, 2^(sh + 1))
        t == low % 2^sh
        half == 2^(sh - 1)
        delta == IF t < half THEN -t
                 ELSE IF t > half THEN 2^sh - t
                 ELSE IF low >= 2^sh THEN 2^sh - t ELSE -t
    IN  IF cd = 0 THEN Zero
        ELSE IF kd >= K THEN [c |-> cd, err |-> E, k |-> K]
        ELSE [c |-> cd, err |-> s * (sE - 100 * delta), k |-> K]

\* -x
FloatNeg(x) == [c |-> -x.c, err |-> -x.err, k |-> x.k]

\* abs(x)
FloatAbs(x) == IF x.c < 0 THEN FloatNeg(x) ELSE x

\* x > y
FloatGt(x, y) ==
    IF x.c # y.c THEN x.c > y.c
    ELSE /\ x.c # 0
         /\ LET K == IF x.k > y.k THEN x.k ELSE y.k
            IN  x.err * 2^(K - x.k) < y.err * 2^(K - y.k)

-----------------------------------------------------------------------------
(* database.py: table holdings is the set of its rows.  A row is a record  *)
(* [etf_code, stock_code, stock_name, shares, market_value, weight, date]; *)
(* weight is a percentage with two decimals, kept as its number of         *)
(* hundredths; the columns id and created_at are read by no caller.        *)

\* UNIQUE(etf_code, stock_code, date)
Key(r) == <<r.etf_code, r.stock_code, r.date>>

\* INSERT OR IGNORE: an existing row of the key is kept
InsertOrIgnore(db, holding) ==
    IF \E r \in db : Key(r) = Key(holding) THEN db ELSE db \cup {holding}

\* INSERT OR REPLACE INTO holdings: the row of the same key, if any, is
\* deleted and the new row inserted
InsertOrReplace(db, holding) ==
    {r \in db : Key(r) # Key(holding)} \cup {holding}

\* old_shares != new_shares or abs(old_weight - new_weight) > 0.01
HasChanged(existing, holding) ==
    \/ existing.shares # holding.shares
    \/ FloatGt(FloatAbs(FloatSub(Dbl100(existing.weight), Dbl100(holding.weight))),
               Dbl100(1))

\* an iteration that counts every existing row as updated
InsertRow_CountsEvery(st, holding) ==
    LET existing == {r \in st.db : Key(r) = Key(holding)}
        db == InsertOrReplace(st.db, holding)
    IN  IF existing # {}
        THEN [db |-> db,
              inserted_count |-> st.inserted_count,
              updated_count |-> st.updated_count + 1]
        ELSE [db |-> db,
              inserted_count |-> st.inserted_count + 1,
              updated_count |-> st.updated_count]

\* one iteration of the loop of insert_holdings on the state
\* [db, inserted_count, updated_count].  The rows the scrapers build name
\* their etf_code, stock_code and date, so no statement raises sqlite3.Error.
InsertRow(st, holding) ==
    LET existing == {r \in st.db : Key(r) = Key(holding)}
        db == InsertOrReplace(st.db, holding)
    IN  IF existing # {}
        THEN [db |-> db,
              inserted_count |-> st.inserted_count,
              updated_count |->
                  IF HasChanged(CHOOSE r \in existing : TRUE, holding)
                  THEN st.updated_count + 1 ELSE st.updated_count]
        ELSE [db |-> db,
              inserted_count |-> st.inserted_count + 1,
              updated_count |-> st.updated_count]

\* Database.insert_holdings: the loop over the list, then the commit
RECURSIVE insert_holdings(_, _)
insert_holdings(db, list) ==
    IF list = <<>>
    THEN [db |-> db, inserted_count |-> 0, updated_count |-> 0]
    ELSE InsertRow(insert_holdings(db, SubSeq(list, 1, Len(list) - 1)),
                   list[Len(list)])

\* the orders in which a SELECT ... ORDER BY weight DESC may return a set of
\* rows: the order of rows of equal weight is not specified
OrderByWeightDesc(rows) ==
    {s \in [1 .. Cardinality(rows) -> rows] :
        /\ \A a, b \in DOMAIN s : a # b => s[a] # s[b]
        /\ \A a, b \in DOMAIN s : a < b => s[a].weight >= s[b].weight}

\* Database.get_holdings_by_date(date, etf_code): the lists it may return
get_holdings_by_date(db, date, etf_code) ==
    OrderByWeightDesc({r \in db : r.date = date /\ r.etf_code = etf_code})

\* SELECT MAX(date) FROM holdings WHERE date < ?: every ETF's rows count
get_previous_trading_date_AnyEtf(db, date, etf_code) ==
    LET ds == {r.date : r \in {q \in db : q.date < date}}
    IN  IF ds = {} THEN None ELSE Some(CHOOSE d \in ds : \A e \in ds : e <= d)

\* Database.get_previous_trading_date(current_date, etf_code):
\* SELECT MAX(date) FROM holdings WHERE date < ? AND etf_code = ?
get_previous_trading_date(db, date, etf_code) ==
    LET ds == {r.date : r \in {q \in db : q.date < date /\ q.etf_code = etf_code}}
    IN  IF ds = {} THEN None ELSE Some(CHOOSE d \in ds : \A e \in ds : e <= d)

-----------------------------------------------------------------------------
(* holdings_analyzer.py *)

\* HoldingsAnalyzer.shares_to_lots
shares_to_lots(shares) == IF shares # 0 THEN Round2(Div1000(shares)) ELSE Zero

\* dataclass HoldingChange: the optional fields default to None
HoldingChange(change_type, stock_code, stock_name, old_shares, new_shares, shares_diff, old_lots, new_lots, lots_diff) ==
    [change_type |-> change_type, stock_code |-> stock_code,
     stock_name |-> stock_name, old_shares |-> old_shares,
     new_shares |-> new_shares, shares_diff |-> shares_diff,
     old_lots |-> old_lots, new_lots |-> new_lots, lots_diff |-> lots_diff]

\* DictPut without the replacement of an existing key
DictPut_Append(d, h) == Append(d, h)

\* d[h['stock_code']] = h on a dict kept as the sequence of its values
DictPut(d, h) ==
    IF \E j \in 1 .. Len(d) : d[j].stock_code = h.stock_code
    THEN [j \in 1 .. Len(d) |->
             IF d[j].stock_code = h.stock_code THEN h ELSE d[j]]
    ELSE Append(d, h)

\* {h['stock_code']: h for h in list}
RECURSIVE DictOf(_)
DictOf(list) ==
    IF list = <<>> THEN <<>>
    ELSE DictPut(DictOf(SubSeq(list, 1, Len(list) - 1)), list[Len(list)])

\* HasKey testing the stored value for truth as well: a row with 0 shares is
\* taken for a missing one
HasKey_Truthy(d, code) ==
    \E j \in 1 .. Len(d) : d[j].stock_code = code /\ d[j].shares # 0

\* code in d
HasKey(d, code) == \E j \in 1 .. Len(d) : d[j].stock_code = code

\* d[code]
DictGet(d, code) == d[CHOOSE j \in 1 .. Len(d) : d[j].stock_code = code]

\* AddedRecord with the old numbers set to zero and not left unset
AddedRecord_ZeroOld(holding) ==
    HoldingChange("ADDED", holding.stock_code, holding.stock_name,
                  Some(0), Some(holding.shares), None,
                  Some(Zero), Some(shares_to_lots(holding.shares)), None)

AddedRecord(holding) ==
    HoldingChange("ADDED", holding.stock_code, holding.stock_name,
                  None, Some(holding.shares), None,
                  None, Some(shares_to_lots(holding.shares)), None)

\* RemovedRecord that leaves the name out
RemovedRecord_Unnamed(holding) ==
    HoldingChange("REMOVED", holding.stock_code, "",
                  Some(holding.shares), None, None,
                  Some(shares_to_lots(holding.shares)), None, None)

RemovedRecord(holding) ==
    HoldingChange("REMOVED", holding.stock_code, holding.stock_name,
                  Some(holding.shares), None, None,
                  Some(shares_to_lots(holding.shares)), None, None)

\* ModifiedRecord with the difference taken as old - new
ModifiedRecord_Reversed(old_holding, new_holding) ==
    LET old_shares == old_holding.shares
        new_shares == new_holding.shares
        shares_diff == old_shares - new_shares
        old_lots == shares_to_lots(old_shares)
        new_lots == shares_to_lots(new_shares)
        lots_diff == FloatSub(old_lots, new_lots)
        change_type == IF shares_diff > 0 THEN "SHARES_UP" ELSE "SHARES_DOWN"
    IN  HoldingChange(change_type, new_holding.stock_code,
                      new_holding.stock_name,
                      Some(old_shares), Some(new_shares), Some(shares_diff),
                      Some(old_lots), Some(new_lots), Some(lots_diff))

ModifiedRecord(old_holding, new_holding) ==
    LET old_shares == old_holding.shares
        new_shares == new_holding.shares
        shares_diff == new_shares - old_shares
        old_lots == shares_to_lots(old_shares)
        new_lots == shares_to_lots(new_shares)
        lots_diff == FloatSub(new_lots, old_lots)
        change_type == IF shares_diff > 0 THEN "SHARES_UP" ELSE "SHARES_DOWN"
    IN  HoldingChange(change_type, new_holding.stock_code,
                      new_holding.stock_name,
                      Some(old_shares), Some(new_shares), Some(shares_diff),
                      Some(old_lots), Some(new_lots), Some(lots_diff))

\* HoldingsAnalyzer.compare_holdings
compare_holdings(yesterday, today) ==
    LET yesterday_stocks == DictOf(yesterday)
        today_stocks == DictOf(today)
        new_stocks ==
            SelectSeq(today_stocks,
                      LAMBDA h : ~HasKey(yesterday_stocks, h.stock_code))
        gone_stocks ==
            SelectSeq(yesterday_stocks,
                      LAMBDA h : ~HasKey(today_stocks, h.stock_code))
        changed_stocks ==
            SelectSeq(yesterday_stocks,
                      LAMBDA h : /\ HasKey(today_stocks, h.stock_code)
                                 /\ DictGet(today_stocks, h.stock_code).shares
                                      - h.shares # 0)
        added == [j \in 1 .. Len(new_stocks) |-> AddedRecord(new_stocks[j])]
        removed == [j \in 1 .. Len(gone_stocks) |-> RemovedRecord(gone_stocks[j])]
        modified ==
            [j \in 1 .. Len(changed_stocks) |->
                ModifiedRecord(changed_stocks[j],
                               DictGet(today_stocks, changed_stocks[j].stock_code))]
    IN  added \o removed \o modified

\* what one call of detect_changes leaves: its locals and the value it
\* returns.  The function returns None or a list that is not empty, so None
\* and the empty list are one value here.
Outcome(date, yesterday, today, result) ==
    [previous_date |-> date, yesterday_holdings |-> yesterday,
     today_holdings |-> today, changes |-> result]

\* detect_changes that compares against an empty baseline when there is none
detect_changes_EmptyBaseline(db, etf_code, date) ==
    LET prev == get_previous_trading_date(db, date, etf_code)
    IN  {Outcome(prev, y, t, IF t = <<>> THEN None ELSE compare_holdings(y, t)) :
            y \in (IF prev = None THEN {<<>>}
                   ELSE get_holdings_by_date(db, prev[1], etf_code)),
            t \in get_holdings_by_date(db, date, etf_code)}

\* detect_changes without the test for an empty current snapshot
detect_changes_NoTodayCheck(db, etf_code, date) ==
    LET prev == get_previous_trading_date(db, date, etf_code)
    IN  IF prev = None THEN {Outcome(None, <<>>, <<>>, None)}
        ELSE {Outcome(prev, y, t, compare_holdings(y, t)) :
                 y \in get_holdings_by_date(db, prev[1], etf_code),
                 t \in get_holdings_by_date(db, date, etf_code)}

\* HoldingsAnalyzer.detect_changes: the outcomes the call may have (one per
\* order in which the store may return the rows of the two snapshots)
detect_changes(db, etf_code, date) ==
    LET prev == get_previous_trading_date(db, date, etf_code)
    IN  IF prev = None THEN {Outcome(None, <<>>, <<>>, None)}
        ELSE {Outcome(prev, y, t, IF t = <<>> THEN None ELSE compare_holdings(y, t)) :
                 y \in get_holdings_by_date(db, prev[1], etf_code),
                 t \in get_holdings_by_date(db, date, etf_code)}

\* all_changes[etf_code] = result on a dict kept as the sequence of its items
ChangesPut(d, etf_code, result) ==
    IF \E j \in 1 .. Len(d) : d[j].etf_code = etf_code
    THEN [j \in 1 .. Len(d) |->
             IF d[j].etf_code = etf_code
             THEN [etf_code |-> etf_code, changes |-> result] ELSE d[j]]
    ELSE Append(d, [etf_code |-> etf_code, changes |-> result])

-----------------------------------------------------------------------------
(* compare_holdings applied to two lists *)

\* the sequences over S of length at most n
SeqsUpTo(S, n) == UNION {[1 .. m -> S] : m \in 0 .. n}

\* the fields of a row that compare_holdings reads
CompareRows == [stock_code : Codes, stock_name : Names, shares : Shares]

InitCompare ==
    /\ yesterday_holdings \in SeqsUpTo(CompareRows, MaxRows)
    /\ today_holdings \in SeqsUpTo(CompareRows, MaxRows - Len(yesterday_holdings))
    /\ changes = <<>>
    /\ pc = "compare"
    /\ holdings = {}
    /\ last_write = {}
    /\ updated_count = 0
    /\ ret = 0
    /\ current_date = 0
    /\ etf_codes = <<>>
    /\ i = 0
    /\ previous_date = None
    /\ all_changes = <<>>
    /\ returned = None
    /\ RenderIdle
    /\ NoFiles
    /\ IngestIdle
    /\ MainIdle

\* changes = analyzer.compare_holdings(yesterday_holdings, today_holdings)
CompareHoldings ==
    /\ pc = "compare"
    /\ changes' = compare_holdings(yesterday_holdings, today_holdings)
    /\ pc' = "compared"
    /\ UNCHANGED <<yesterday_holdings, today_holdings, store_vars, batch_vars,
                   render_vars, file_vars,
                   ingest_vars, main_vars>>

NextCompare == CompareHoldings

SpecCompare == InitCompare /\ [][NextCompare]_vars

-----------------------------------------------------------------------------
(* Properties of compare_holdings, stated on the argument lists *)

CodesOf(list) == {list[j].stock_code : j \in 1 .. Len(list)}

\* the last row of a list for a stock
LastRow(list, code) ==
    LET js == {j \in 1 .. Len(list) : list[j].stock_code = code}
    IN  list[CHOOSE j \in js : \A m \in js : m <= j]

\* the positions of the records of a stock
RecordsOf(code) == {j \in 1 .. Len(changes) : changes[j].stock_code = code}

Modified == {"SHARES_UP", "SHARES_DOWN"}

\* x is shares/1000 rounded to two decimals: the binary64 value of a number
\* of hundredths no further than half a hundredth from shares/1000
IsRoundedLots(shares, x) ==
    \E c \in {shares \div 10, (shares \div 10) + 1} :
        /\ x = Dbl100(c)
        /\ Abs(shares - 10 * c) <= 5

\* C1: compare_holdings returns at most one record per stock_code, every
\* record is about a stock of one of the two lists, and a stock that a list
\* holds twice is reported with the values of its last row in that list.
C1_OneRecordPerStock ==
    pc = "compared" =>
        /\ \A a, b \in 1 .. Len(changes) :
               changes[a].stock_code = changes[b].stock_code => a = b
        /\ \A a \in 1 .. Len(changes) :
               LET r == changes[a]
                   code == r.stock_code
               IN  /\ code \in CodesOf(yesterday_holdings) \cup CodesOf(today_holdings)
                   /\ r.change_type \in {"ADDED", "REMOVED"} \cup Modified
                   /\ r.new_shares # None =>
                          r.new_shares = Some(LastRow(today_holdings, code).shares)
                   /\ r.old_shares # None =>
                          r.old_shares = Some(LastRow(yesterday_holdings, code).shares)

\* a list holds a stock twice with different share counts and the stock is reported
C1_Witness ==
    /\ pc = "compared"
    /\ \E a, b \in 1 .. Len(today_holdings) :
           /\ a < b
           /\ today_holdings[a].stock_code = today_holdings[b].stock_code
           /\ today_holdings[a].shares # today_holdings[b].shares
           /\ RecordsOf(today_holdings[a].stock_code) # {}

\* C2: an ADDED record exists for exactly the stocks of current that are not
\* in previous, with new_shares the current share count, new_lots that count
\* over 1000 rounded to two decimals and the four other numbers unset; a
\* REMOVED record exists for exactly the stocks of previous that are not in
\* current, with old_shares and old_lots set the same way from previous.
C2_AddedRemoved ==
    pc = "compared" =>
        \A code \in Codes :
            LET inPrev == code \in CodesOf(yesterday_holdings)
                inCur == code \in CodesOf(today_holdings)
                added == {j \in RecordsOf(code) : changes[j].change_type = "ADDED"}
                removed == {j \in RecordsOf(code) : changes[j].change_type = "REMOVED"}
            IN  /\ (added # {}) <=> (inCur /\ ~inPrev)
                /\ (removed # {}) <=> (inPrev /\ ~inCur)
                /\ \A j \in added :
                       LET r == changes[j]
                           shares == LastRow(today_holdings, code).shares
                       IN  /\ r.new_shares = Some(shares)
                           /\ Len(r.new_lots) = 1
                           /\ IsRoundedLots(shares, r.new_lots[1])
                           /\ r.old_shares = None /\ r.old_lots = None
                           /\ r.shares_diff = None /\ r.lots_diff = None
                /\ \A j \in removed :
                       LET r == changes[j]
                           shares == LastRow(yesterday_holdings, code).shares
                       IN  /\ r.old_shares = Some(shares)
                           /\ Len(r.old_lots) = 1
                           /\ IsRoundedLots(shares, r.old_lots[1])
                           /\ r.new_shares = None /\ r.new_lots = None
                           /\ r.shares_diff = None /\ r.lots_diff = None

\* one call reports a stock as ADDED against a baseline that holds another
\* stock, and that other stock as REMOVED
C2_Witness ==
    /\ pc = "compared"
    /\ yesterday_holdings # <<>>
    /\ \E a, b \in 1 .. Len(changes) :
           /\ changes[a].change_type = "ADDED"
           /\ changes[a].new_shares = Some(301)
           /\ changes[b].change_type = "REMOVED"

\* C3: a stock of both lists has no record when its two share counts are
\* equal and otherwise exactly one record, with shares_diff = new - old # 0,
\* of kind SHARES_UP iff shares_diff > 0 and SHARES_DOWN iff shares_diff < 0.
C3_ModifiedByShareDelta ==
    pc = "compared" =>
        \A code \in CodesOf(yesterday_holdings) \cap CodesOf(today_holdings) :
            LET old == LastRow(yesterday_holdings, code).shares
                new == LastRow(today_holdings, code).shares
                recs == RecordsOf(code)
            IN  /\ old = new => recs = {}
                /\ old # new =>
                       /\ Cardinality(recs) = 1
                       /\ \A j \in recs :
                              /\ changes[j].shares_diff = Some(new - old)
                              /\ changes[j].old_shares = Some(old)
                              /\ changes[j].new_shares = Some(new)
                              /\ changes[j].change_type \in Modified
                              /\ changes[j].change_type = "SHARES_UP" <=> new - old > 0
                              /\ changes[j].change_type = "SHARES_DOWN" <=> new - old < 0

\* a change of one share is reported
C3_Witness ==
    /\ pc = "compared"
    /\ \E j \in 1 .. Len(changes) :
           /\ changes[j].shares_diff = Some(1)
           /\ changes[j].change_type = "SHARES_UP"

\* C9: a stock held with 0 shares in current and with more in previous is
\* reported once, as SHARES_DOWN with new_shares = 0 and new_lots = 0.0, and
\* a REMOVED record is only ever about a stock that current does not hold.
C9_ZeroSharesIsDecrease ==
    pc = "compared" =>
        /\ \A code \in CodesOf(yesterday_holdings) \cap CodesOf(today_holdings) :
               (/\ LastRow(today_holdings, code).shares = 0
                /\ LastRow(yesterday_holdings, code).shares > 0) =>
                   /\ RecordsOf(code) # {}
                   /\ \A j \in RecordsOf(code) :
                          /\ changes[j].change_type = "SHARES_DOWN"
                          /\ changes[j].new_shares = Some(0)
                          /\ changes[j].new_lots = Some(Zero)
        /\ \A j \in 1 .. Len(changes) :
               changes[j].change_type = "REMOVED" =>
                   changes[j].stock_code \notin CodesOf(today_holdings)

\* current holds a stock with 0 shares that previous held with more
C9_Witness ==
    /\ pc = "compared"
    /\ \E j \in 1 .. Len(changes) :
           /\ changes[j].new_shares = Some(0)
           /\ changes[j].old_shares # None
           /\ changes[j].old_shares # Some(0)

\* C10: in every modified record old_lots and new_lots are the share counts
\* over 1000, each rounded to two decimals, lots_diff is their difference,
\* and rounding lots_diff to two decimals gives lots_diff back unchanged.
C10_LotsDiffIsRounded ==
    pc = "compared" =>
        \A j \in 1 .. Len(changes) :
            changes[j].change_type \in Modified =>
                LET r == changes[j]
                IN  /\ IsRoundedLots(r.old_shares[1], r.old_lots[1])
                    /\ IsRoundedLots(r.new_shares[1], r.new_lots[1])
                    /\ r.lots_diff[1].c = r.new_lots[1].c - r.old_lots[1].c
                    /\ FloatEq(RoundHundredths(r.lots_diff[1]), r.lots_diff[1])

-----------------------------------------------------------------------------
(* The store under insert_holdings *)

\* the triples written to: a stock, a second stock of the same ETF and date,
\* and a row of another ETF and date
InsertKeys ==
    {<<"00980A", "2313", 1>>, <<"00980A", "3653", 1>>, <<"00981A", "2313", 2>>}

\* what is written for a triple
Payloads ==
    {[stock_name |-> "name_a", shares |-> 100, market_value |-> 0, weight |-> 6],
     [stock_name |-> "name_b", shares |-> 300, market_value |-> 1, weight |-> 7]}

Row(key, p) ==
    [etf_code |-> key[1], stock_code |-> key[2], date |-> key[3],
     stock_name |-> p.stock_name, shares |-> p.shares,
     market_value |-> p.market_value, weight |-> p.weight]

\* a row that differs from the first payload by a hundredth of a percent of
\* weight only
WeightOnlyRow ==
    Row(<<"00980A", "2313", 1>>,
        [stock_name |-> "name_a", shares |-> 100, market_value |-> 0, weight |-> 7])

InsertRows == {Row(key, p) : key \in InsertKeys, p \in Payloads} \cup {WeightOnlyRow}

InitStore ==
    /\ holdings = {}
    /\ last_write = {}
    /\ updated_count = 0
    /\ ret = 0
    /\ pc = "store"
    /\ yesterday_holdings = <<>>
    /\ today_holdings = <<>>
    /\ changes = <<>>
    /\ current_date = 0
    /\ etf_codes = <<>>
    /\ i = 0
    /\ previous_date = None
    /\ all_changes = <<>>
    /\ returned = None
    /\ RenderIdle
    /\ NoFiles
    /\ IngestIdle
    /\ MainIdle

\* ret = db.insert_holdings(list)
InsertHoldings ==
    /\ pc = "store"
    /\ \E list \in SeqsUpTo(InsertRows, MaxListLen) :
           LET st == insert_holdings(holdings, list)
               written == {Key(list[j]) : j \in 1 .. Len(list)}
               last == {list[j] : j \in {a \in 1 .. Len(list) :
                           \A b \in 1 .. Len(list) :
                               Key(list[b]) = Key(list[a]) => b <= a}}
           IN  /\ holdings' = st.db
               /\ updated_count' = st.updated_count
               /\ ret' = st.inserted_count + st.updated_count
               /\ last_write' = {r \in last_write : Key(r) \notin written} \cup last
    /\ UNCHANGED <<yesterday_holdings, today_holdings, changes, batch_vars, pc,
                   render_vars, file_vars,
                   ingest_vars, main_vars>>

NextStore == InsertHoldings

SpecStore == InitStore /\ [][NextStore]_vars

-----------------------------------------------------------------------------
(* insert_holdings statement by statement, next to a reader *)

\* the rows a scrape of ETF 00980A for date 1 may hold: three rows for one
\* stock and one for another
IngestRows ==
    {r \in InsertRows :
        /\ r.etf_code = "00980A"
        /\ r.date = 1
        /\ r.stock_code = "3653" => r.shares = 100}

\* a reader that shares the writer's view of its open transaction
Visible_Uncommitted(committed, open) ==
    IF open = None THEN committed ELSE open[1].db

\* the rows a SELECT on another connection reads while a transaction is
\* open: the committed ones.  Python's sqlite3 opens the transaction before
\* the first INSERT OR REPLACE and insert_holdings commits once, after its
\* loop; a reader that meets the commit itself gets "database is locked",
\* an exception and no rows.
Visible(committed, open) == committed

InitIngest ==
    /\ holdings = {}
    /\ last_write = {}
    /\ updated_count = 0
    /\ ret = 0
    /\ pc = "ingest"
    /\ yesterday_holdings = <<>>
    /\ today_holdings = <<>>
    /\ changes = <<>>
    /\ current_date = 0
    /\ etf_codes = <<>>
    /\ i = 0
    /\ previous_date = None
    /\ all_changes = <<>>
    /\ returned = None
    /\ RenderIdle
    /\ NoFiles
    /\ IngestIdle
    /\ MainIdle

\* the transaction a call of insert_holdings starts with
OpenTxn(list) ==
    Some([holdings |-> list, n |-> 0, db |-> holdings,
          inserted_count |-> 0, updated_count |-> 0])

\* db.insert_holdings(holdings) is called: conn = self.get_connection()
BeginInsert ==
    /\ pc = "ingest"
    /\ txn = None
    /\ \E list \in SeqsUpTo(IngestRows, MaxListLen) :
           /\ txn' = OpenTxn(list)
           /\ store_call' = Some([holdings |-> list, db_before |-> holdings,
                                  again |-> FALSE, returned |-> FALSE])
    /\ seen' = None
    /\ UNCHANGED <<store_vars, yesterday_holdings, today_holdings, changes, batch_vars,
                   pc, render_vars, file_vars, main_vars>>

\* db.insert_holdings is called with the list of the call that just
\* returned
BeginAgain ==
    /\ pc = "ingest"
    /\ txn = None
    /\ store_call # None
    /\ store_call[1].returned
    /\ txn' = OpenTxn(store_call[1].holdings)
    /\ store_call' = Some([holdings |-> store_call[1].holdings, db_before |-> holdings,
                           again |-> TRUE, returned |-> FALSE])
    /\ seen' = None
    /\ UNCHANGED <<store_vars, yesterday_holdings, today_holdings, changes, batch_vars,
                   pc, render_vars, file_vars, main_vars>>

\* one iteration of the loop: the SELECT and the INSERT OR REPLACE of a row
\* on the writer's connection
InsertStep ==
    /\ txn # None
    /\ txn[1].n < Len(txn[1].holdings)
    /\ LET st == InsertRow([db |-> txn[1].db,
                            inserted_count |-> txn[1].inserted_count,
                            updated_count |-> txn[1].updated_count],
                           txn[1].holdings[txn[1].n + 1])
       IN  txn' = Some([holdings |-> txn[1].holdings, n |-> txn[1].n + 1, db |-> st.db,
                        inserted_count |-> st.inserted_count,
                        updated_count |-> st.updated_count])
    /\ UNCHANGED <<store_vars, yesterday_holdings, today_holdings, changes, batch_vars,
                   pc, render_vars, file_vars, store_call, seen, main_vars>>

\* conn.commit(), conn.close() and return inserted_count + updated_count
CommitInsert ==
    /\ txn # None
    /\ txn[1].n = Len(txn[1].holdings)
    /\ LET list == txn[1].holdings
           written == {Key(list[j]) : j \in 1 .. Len(list)}
           last == {list[j] : j \in {a \in 1 .. Len(list) :
                       \A b \in 1 .. Len(list) :
                           Key(list[b]) = Key(list[a]) => b <= a}}
       IN  /\ holdings' = txn[1].db
           /\ updated_count' = txn[1].updated_count
           /\ ret' = txn[1].inserted_count + txn[1].updated_count
           /\ last_write' = {r \in last_write : Key(r) \notin written} \cup last
    /\ txn' = None
    /\ store_call' = Some([store_call[1] EXCEPT !.returned = TRUE])
    /\ UNCHANGED <<yesterday_holdings, today_holdings, changes, batch_vars,
                   pc, render_vars, file_vars, seen, main_vars>>

\* the process is stopped inside the loop: the connection goes without a
\* commit and its transaction is rolled back
AbortInsert ==
    /\ txn # None
    /\ txn' = None
    /\ store_call' = None
    /\ UNCHANGED <<store_vars, yesterday_holdings, today_holdings, changes, batch_vars,
                   pc, render_vars, file_vars, seen, main_vars>>

\* a reader: rows = db.get_holdings_by_date(date, etf_code) on a connection
\* of its own
ReadHoldings ==
    /\ pc = "ingest"
    /\ \E rows \in get_holdings_by_date(Visible(holdings, txn), 1, "00980A") :
           seen' = Some([rows |-> rows, call |-> store_call,
                         n |-> IF txn = None THEN -1 ELSE txn[1].n])
    /\ UNCHANGED <<store_vars, yesterday_holdings, today_holdings, changes, batch_vars,
                   pc, render_vars, file_vars, store_call, txn, main_vars>>

NextIngest ==
    BeginInsert \/ BeginAgain \/ InsertStep \/ CommitInsert \/ AbortInsert \/ ReadHoldings

SpecIngest == InitIngest /\ [][NextIngest]_vars

-----------------------------------------------------------------------------
(* detect_changes_batch over a store *)

BatchCodes == {"2313", "3653"}
BatchKeys == ETFs \X BatchCodes \X Dates

\* the row of a key in a store: every stock is held with 100 shares, and
\* the stock 2313 of the ETF 00980A with 100 or with 300
BatchRow(key, more) ==
    Row(key, [stock_name |-> "name_a", shares |-> IF more THEN 300 ELSE 100,
              market_value |-> 0, weight |-> 6])

\* the stores of at most MaxStoreRows rows: one row per key
BatchStores ==
    UNION {{{BatchRow(key, key \in H) : key \in K} :
               H \in SUBSET {key \in K : key[1] = "00980A" /\ key[2] = "2313"}} :
              K \in {K \in SUBSET BatchKeys : Cardinality(K) <= MaxStoreRows}}

\* the lists of ETFs a batch is run for: every active ETF in the order of
\* get_active_etfs, and a shorter list in another order
Batches == {<<"00980A", "00981A", "00982A">>, <<"00982A", "00980A">>}

Init ==
    /\ holdings \in BatchStores
    /\ last_write = holdings
    /\ updated_count = 0
    /\ ret = 0
    /\ current_date \in Dates
    /\ etf_codes \in Batches
    /\ i = 0
    /\ previous_date = None
    /\ yesterday_holdings = <<>>
    /\ today_holdings = <<>>
    /\ changes = <<>>
    /\ all_changes = <<>>
    /\ returned = None
    /\ pc = "batch"
    /\ RenderIdle
    /\ NoFiles
    /\ IngestIdle
    /\ MainIdle

\* one iteration of the loop of detect_changes_batch:
\* changes = self.detect_changes(etf_code, current_date), then the update of
\* all_changes
Iterate ==
    /\ pc = "batch"
    /\ i < Len(etf_codes)
    /\ \E out \in detect_changes(holdings, etf_codes[i + 1], current_date) :
           /\ previous_date' = out.previous_date
           /\ yesterday_holdings' = out.yesterday_holdings
           /\ today_holdings' = out.today_holdings
           /\ changes' = out.changes
           /\ all_changes' = IF out.changes # <<>>
                             THEN ChangesPut(all_changes, etf_codes[i + 1], out.changes)
                             ELSE all_changes
    /\ i' = i + 1
    /\ UNCHANGED <<store_vars, current_date, etf_codes, returned, pc,
                   render_vars, file_vars,
                   ingest_vars, main_vars>>

\* a statement of the store raises sqlite3.Error inside detect_changes:
\* neither detect_changes nor detect_changes_batch has a handler, the
\* exception leaves detect_changes_batch and all_changes is lost
DetectRaises ==
    /\ pc = "batch"
    /\ i < Len(etf_codes)
    /\ pc' = "raised"
    /\ UNCHANGED <<store_vars, yesterday_holdings, today_holdings, changes,
                   batch_vars, render_vars, file_vars,
                   ingest_vars, main_vars>>

\* return all_changes
Return ==
    /\ pc = "batch"
    /\ i = Len(etf_codes)
    /\ returned' = Some(all_changes)
    /\ pc' = "returned"
    /\ UNCHANGED <<store_vars, yesterday_holdings, today_holdings, changes,
                   current_date, etf_codes, i, previous_date, all_changes,
                   render_vars, file_vars,
                   ingest_vars, main_vars>>

Next == Iterate \/ DetectRaises \/ Return

Spec == Init /\ [][Next]_vars

-----------------------------------------------------------------------------
(* Properties of the batch analyzer, stated on the rows of the store *)

\* the rows of an ETF on a date
RowsOf(e, d) == {r \in holdings : r.etf_code = e /\ r.date = d}

\* the dates before the reporting date on which the ETF has a row
EarlierDates(e) ==
    {r.date : r \in {q \in holdings : q.etf_code = e /\ q.date < current_date}}

NoBaseline(e) == EarlierDates(e) = {}

\* the stocks and share counts of a set of rows
Positions(rows) == {<<r.stock_code, r.shares>> : r \in rows}

\* the ETFs the loop has gone through, and the keys of a ChangeSet
Processed == {etf_codes[j] : j \in 1 .. i}
KeysOf(d) == {d[j].etf_code : j \in 1 .. Len(d)}

\* C4: for an ETF with no row before the reporting date detect_changes has
\* the one outcome None (a value, not an exception), whatever the ETF holds
\* on the reporting date, and the ETF is no key of the ChangeSet, assembled
\* or returned.
C4_NoBaselineNoChanges ==
    /\ \A e \in Processed : NoBaseline(e) => e \notin KeysOf(all_changes)
    /\ (pc = "batch" /\ i > 0 /\ NoBaseline(etf_codes[i])) =>
           changes = None /\ previous_date = None
    /\ \A e \in ETFs :
           NoBaseline(e) =>
               detect_changes(holdings, e, current_date)
                   = {Outcome(None, <<>>, <<>>, None)}
    /\ pc = "returned" =>
           \A e \in ETFs : NoBaseline(e) => e \notin KeysOf(returned[1])

\* the batch returned after going through an ETF that has two holdings on
\* the reporting date and none before
C4_Witness ==
    /\ pc = "returned"
    /\ \E e \in Processed :
           /\ NoBaseline(e)
           /\ Cardinality(RowsOf(e, current_date)) = 2
           /\ e \notin KeysOf(returned[1])

\* C5: detect_changes_batch never ends by an exception: when detect_changes
\* fails for one ETF the loop goes on with the next one and the call returns.
C5_FailureDoesNotAbort == pc # "raised"

\* C6: the returned ChangeSet has the key e exactly when e is in etf_codes,
\* has a row before the reporting date, has a row on the reporting date and
\* holds other stocks or share counts on the reporting date than on its
\* baseline date; no key maps to an empty list and no key occurs twice.
C6_ChangeSetKeys ==
    pc = "returned" =>
        LET d == returned[1]
        IN  /\ \A e \in ETFs :
                   e \in KeysOf(d) <=>
                       /\ \E j \in 1 .. Len(etf_codes) : etf_codes[j] = e
                       /\ ~NoBaseline(e)
                       /\ RowsOf(e, current_date) # {}
                       /\ \E b \in EarlierDates(e) :
                              /\ \A x \in EarlierDates(e) : x <= b
                              /\ Positions(RowsOf(e, b)) #
                                     Positions(RowsOf(e, current_date))
            /\ \A j \in 1 .. Len(d) : d[j].changes # <<>>
            /\ \A a, b \in 1 .. Len(d) : d[a].etf_code = d[b].etf_code => a = b

\* the batch returned a ChangeSet with a key, after going through an ETF
\* that has a baseline and no row on the reporting date
C6_Witness ==
    /\ pc = "returned"
    /\ returned[1] # <<>>
    /\ \E e \in Processed :
           /\ ~NoBaseline(e)
           /\ RowsOf(e, current_date) = {}
           /\ e \notin KeysOf(returned[1])

\* C7: the baseline date detect_changes looks up for an ETF is None exactly
\* when the ETF has no row before the reporting date, and otherwise a date
\* before the reporting date on which the ETF has a row, with no row of the
\* ETF on a date in between; the previous snapshot compared is that date's.
C7_BaselineIsLatestEarlier ==
    (pc = "batch" /\ i > 0) =>
        LET e == etf_codes[i]
        IN  /\ previous_date = None <=> NoBaseline(e)
            /\ previous_date # None =>
                   LET b == previous_date[1]
                   IN  /\ b < current_date
                       /\ RowsOf(e, b) # {}
                       /\ \A x \in Dates :
                              (b < x /\ x < current_date) => RowsOf(e, x) = {}
                       /\ {yesterday_holdings[j] : j \in 1 .. Len(yesterday_holdings)}
                              = RowsOf(e, b)
                       /\ Len(yesterday_holdings) = Cardinality(RowsOf(e, b))

\* the baseline of an ETF is two days back although another ETF has a
\* snapshot on the day in between, and the ETF is compared against it
C7_Witness ==
    /\ pc = "batch"
    /\ i > 0
    /\ current_date = 3
    /\ previous_date = Some(1)
    /\ today_holdings # <<>>
    /\ \E r \in holdings : r.etf_code # etf_codes[i] /\ r.date = 2

-----------------------------------------------------------------------------
(* Properties of the store *)

\* C8: after any sequence of insert_holdings calls the store holds at most
\* one row per (etf_code, stock_code, date), and its rows are, for every
\* triple written so far, the row of the last write to that triple.
C8_LastWriteWins ==
    /\ \A r, q \in holdings : Key(r) = Key(q) => r = q
    /\ holdings = last_write

\* a call counted a row it wrote over as updated, beside rows of other triples
C8_Witness ==
    /\ updated_count > 0
    /\ Cardinality(holdings) = Cardinality(InsertKeys)

-----------------------------------------------------------------------------
(* Sums and formatting of numbers of lots *)

\* The binary64 value nearest to the exact number cd/100 - E/(100 * 2^K),
\* cd # 0, a multiple of 2^-K: the rounding to 53 significant bits that ends
\* a float addition
Round53(cd, E, K) ==
    LET s == Sign(cd)
        acd == Abs(cd)
        sE == s * E
        e0 == FloorLog2(acd, 100)
        isPow == IF e0 >= 0 THEN acd = 100 * 2^e0 ELSE acd * 2^(-e0) = 100
        ed == IF isPow /\ sE > 0 THEN e0 - 1 ELSE e0
        kd == 52 - ed
        sh == K - kd
        low == LowBits(sE \div 4, 2^(sh + 1))
        t == low % 2^sh
        half == 2^(sh - 1)
        delta == IF t < half THEN -t
                 ELSE IF t > half THEN 2^sh - t
                 ELSE IF low >= 2^sh THEN 2^sh - t ELSE -t
    IN  IF kd >= K THEN [c |-> cd, err |-> E, k |-> K]
        ELSE [c |-> cd, err |-> s * (sE - 100 * delta), k |-> K]

\* a + b in binary64 (report_generator.py:82).  The sum of two values that
\* cancel to less than a hundredth is exact; it is zero, or the difference of
\* the two rounding errors: [c |-> 0, err |-> E, k |-> K] with E # 0.
FloatAdd(a, b) ==
    IF a.c = 0 /\ a.err = 0 THEN b
    ELSE IF b.c = 0 /\ b.err = 0 THEN a
    ELSE LET K == IF a.k > b.k THEN a.k ELSE b.k
             E == a.err * 2^(K - a.k) + b.err * 2^(K - b.k)
             cs == a.c + b.c
         IN  IF cs = 0 THEN (IF E = 0 THEN Zero ELSE [c |-> 0, err |-> E, k |-> K])
             ELSE Round53(cs, E, K)

\* f"{x:.2f}": the decimal numeral with two places nearest to x, kept as its
\* number of hundredths.  The callers format numbers of lots and absolute
\* differences of two of them, which are >= 0.
Fmt2f(x) == x.c

\* f"{x:,.0f}": the whole number nearest to the exact binary value of x (a
\* tie goes to the even one), kept as its sign and its digits; a negative
\* number that rounds to zero prints as "-0".  The callers format numbers
\* of lots and differences of two of them.
Fmt0f(x) ==
    LET a == Abs(x.c)
        n == a \div 100
        r == a % 100
        e == Sign(x.c) * x.err
        up == \/ r > 50
              \/ r = 50 /\ e < 0
              \/ r = 50 /\ e = 0 /\ n % 2 = 1
    IN  [neg |-> x.c < 0, digits |-> IF up THEN n + 1 ELSE n]

-----------------------------------------------------------------------------
(* The renderers.  A ChangeSet is a dict from etf_code to a list of        *)
(* HoldingChange: the sequence of its items [etf_code, changes] in         *)
(* insertion order.  A rendered text is the sequence of its lines, a line  *)
(* the record of its kind and of the values printed in it.                 *)

\* the ETF codes in the order of their strings
EtfOrder ==
    <<"00980A", "00981A", "00982A", "00984A", "00985A",
      "00987A", "00991A", "00992A", "00994A", "00995A">>
EtfRank(etf_code) == CHOOSE j \in 1 .. Len(EtfOrder) : EtfOrder[j] = etf_code

\* table etf_list as get_active_etfs returns it: 00982A is not listed
etf_info_dict == ("00980A" :> "Nomura Innovation 50") @@ ("00981A" :> "Uni Growth")

\* etf_info_dict.get(etf_code, etf_code), and the same lookup written as
\* next((e['etf_name'] for e in etf_info if e['etf_code'] == etf_code), etf_code)
etf_name(etf_code) ==
    IF etf_code \in DOMAIN etf_info_dict THEN etf_info_dict[etf_code] ELSE etf_code

\* the items of a dict in insertion order, not sorted
SortedItems_KeyOrder(d) == d

\* sorted(changes_dict.items()): the items by ascending etf_code (the keys of
\* a dict differ, so the lists are never compared)
RECURSIVE SortedItems(_)
SortedItems(d) ==
    IF d = <<>> THEN <<>>
    ELSE LET m == CHOOSE j \in 1 .. Len(d) :
                      \A q \in 1 .. Len(d) : EtfRank(d[j].etf_code) <= EtfRank(d[q].etf_code)
         IN  <<d[m]>> \o SortedItems(SubSeq(d, 1, m - 1) \o SubSeq(d, m + 1, Len(d)))

\* the concatenation of a sequence of sequences
RECURSIVE Concat(_)
Concat(ss) == IF ss = <<>> THEN <<>> ELSE Head(ss) \o Concat(Tail(ss))

\* sum(len(changes) for changes in changes_dict.values())
RECURSIVE TotalChanges(_)
TotalChanges(d) ==
    IF d = <<>> THEN 0 ELSE Len(Head(d).changes) + TotalChanges(Tail(d))

\* the three buckets of one ETF's list
AddedOf(cs) == SelectSeq(cs, LAMBDA c : c.change_type = "ADDED")
RemovedOf(cs) == SelectSeq(cs, LAMBDA c : c.change_type = "REMOVED")

\* a modified bucket that takes the increases only
ModifiedOf_UpOnly(cs) == SelectSeq(cs, LAMBDA c : c.change_type = "SHARES_UP")

\* modified = [c for c in changes if c.change_type not in ['ADDED', 'REMOVED']]
ModifiedOf(cs) == SelectSeq(cs, LAMBDA c : c.change_type \notin {"ADDED", "REMOVED"})

\* the tree prefix of item j of n
TxtPrefix(j, n) == IF j < n THEN "tee" ELSE "corner"

\* HoldingsAnalyzer.generate_report: the lines of one ETF
TxtSection(item) ==
    LET added == AddedOf(item.changes)
        removed == RemovedOf(item.changes)
        modified == ModifiedOf(item.changes)
    IN  <<[line |-> "etf", etf_code |-> item.etf_code, etf_name |-> etf_name(item.etf_code)]>>
        \o (IF added = <<>> THEN <<>>
            ELSE <<[line |-> "added_header", count |-> Len(added)]>>
                 \o [j \in 1 .. Len(added) |->
                        [line |-> "added", prefix |-> TxtPrefix(j, Len(added)),
                         stock_code |-> added[j].stock_code,
                         stock_name |-> added[j].stock_name,
                         new_lots |-> Fmt2f(added[j].new_lots[1])]]
                 \o <<[line |-> "blank"]>>)
        \o (IF removed = <<>> THEN <<>>
            ELSE <<[line |-> "removed_header", count |-> Len(removed)]>>
                 \o [j \in 1 .. Len(removed) |->
                        [line |-> "removed", prefix |-> TxtPrefix(j, Len(removed)),
                         stock_code |-> removed[j].stock_code,
                         stock_name |-> removed[j].stock_name,
                         old_lots |-> Fmt2f(removed[j].old_lots[1])]]
                 \o <<[line |-> "blank"]>>)
        \o (IF modified = <<>> THEN <<>>
            ELSE <<[line |-> "modified_header", count |-> Len(modified)]>>
                 \o [j \in 1 .. Len(modified) |->
                        [line |-> "modified", prefix |-> TxtPrefix(j, Len(modified)),
                         stock_code |-> modified[j].stock_code,
                         stock_name |-> modified[j].stock_name,
                         old_lots |-> Fmt2f(modified[j].old_lots[1]),
                         new_lots |-> Fmt2f(modified[j].new_lots[1]),
                         arrow |-> IF FloatSign(modified[j].lots_diff[1]) > 0
                                   THEN "up" ELSE "down",
                         diff |-> Fmt2f(FloatAbs(modified[j].lots_diff[1]))]]
                 \o <<[line |-> "blank"]>>)

\* HoldingsAnalyzer.generate_report(changes_dict, date)
generate_report(d, day) ==
    IF d = <<>>
    THEN <<[line |-> "title", date |-> day], [line |-> "no_changes"]>>
    ELSE LET items == SortedItems(d)
         IN  <<[line |-> "rule"], [line |-> "title", date |-> day], [line |-> "rule"]>>
             \o Concat([j \in 1 .. Len(items) |-> TxtSection(items[j])])
             \o <<[line |-> "total", etf_count |-> Len(d), total_changes |-> TotalChanges(d)],
                  [line |-> "rule"]>>

\* HoldingsAnalyzer.generate_markdown_report: the block of one ETF
MdSection(item) ==
    LET added == AddedOf(item.changes)
        removed == RemovedOf(item.changes)
        modified == ModifiedOf(item.changes)
    IN  <<[line |-> "details_open"],
          [line |-> "summary", etf_code |-> item.etf_code,
           etf_name |-> etf_name(item.etf_code), count |-> Len(item.changes)]>>
        \o (IF added = <<>> THEN <<>>
            ELSE <<[line |-> "added_table"]>>
                 \o [j \in 1 .. Len(added) |->
                        [line |-> "added_row",
                         stock_code |-> added[j].stock_code,
                         stock_name |-> added[j].stock_name,
                         new_lots |-> Fmt2f(added[j].new_lots[1])]]
                 \o <<[line |-> "blank"]>>)
        \o (IF removed = <<>> THEN <<>>
            ELSE <<[line |-> "removed_table"]>>
                 \o [j \in 1 .. Len(removed) |->
                        [line |-> "removed_row",
                         stock_code |-> removed[j].stock_code,
                         stock_name |-> removed[j].stock_name,
                         old_lots |-> Fmt2f(removed[j].old_lots[1])]]
                 \o <<[line |-> "blank"]>>)
        \o (IF modified = <<>> THEN <<>>
            ELSE <<[line |-> "modified_table"]>>
                 \o [j \in 1 .. Len(modified) |->
                        [line |-> "modified_row",
                         stock_code |-> modified[j].stock_code,
                         stock_name |-> modified[j].stock_name,
                         emoji |-> IF FloatSign(modified[j].lots_diff[1]) > 0
                                   THEN "chart_up" ELSE "chart_down",
                         old_whole |-> Fmt0f(modified[j].old_lots[1]),
                         new_whole |-> Fmt0f(modified[j].new_lots[1]),
                         sign |-> IF FloatSign(modified[j].lots_diff[1]) > 0
                                  THEN "+" ELSE "",
                         diff_whole |-> Fmt0f(modified[j].lots_diff[1])]]
                 \o <<[line |-> "blank"]>>)
        \o <<[line |-> "details_close"]>>

\* HoldingsAnalyzer.generate_markdown_report(changes_dict, date) when the
\* clock reads current_time
generate_markdown_report(d, day, current_time) ==
    IF d = <<>>
    THEN <<[line |-> "md_title"], [line |-> "md_updated_on", date |-> day],
           [line |-> "md_heading", date |-> day], [line |-> "md_no_changes"]>>
    ELSE LET items == SortedItems(d)
         IN  <<[line |-> "md_title"],
               [line |-> "md_updated_at", time |-> current_time],
               [line |-> "md_heading", date |-> day],
               [line |-> "md_counts", etf_count |-> Len(d),
                total_changes |-> TotalChanges(d)]>>
             \o Concat([j \in 1 .. Len(items) |-> MdSection(items[j])])
             \o <<[line |-> "md_notes"],
                  [line |-> "md_generated_at", time |-> current_time]>>

\* hot_stocks[:10]
TopN == 10

\* change.change_type in ['SHARES_UP', 'SHARES_DOWN']
IsHot(change) == change.change_type \in {"SHARES_UP", "SHARES_DOWN"}

\* the records the loop of generate_dashboard_data folds into stock_changes,
\* each with the ETF it belongs to, in the order the loop meets them
HotChanges(d) ==
    Concat([j \in 1 .. Len(d) |->
               LET hot == SelectSeq(d[j].changes, IsHot)
               IN  [q \in 1 .. Len(hot) |-> [etf_code |-> d[j].etf_code, change |-> hot[q]]]])

\* NetChangeStep that leaves the decreases out of the sum
NetChangeStep_UpOnly(net_change, change) ==
    IF change.change_type = "SHARES_UP"
    THEN FloatAdd(net_change, change.lots_diff[1]) ELSE net_change

\* stock_changes[code]['net_change'] += change.lots_diff, in either branch
NetChangeStep(net_change, change) == FloatAdd(net_change, change.lots_diff[1])

\* one iteration of the loop body on the dict stock_changes, kept as the
\* sequence of its values in insertion order
StockChangesPut(sc, h) ==
    LET code == h.change.stock_code
        known == \E j \in 1 .. Len(sc) : sc[j].stock_code = code
        base == IF known THEN sc
                ELSE Append(sc, [stock_code |-> code, name |-> h.change.stock_name,
                                 up_count |-> 0, down_count |-> 0,
                                 net_change |-> Zero, etf_details |-> <<>>])
        etf_detail == [etf_code |-> h.etf_code, etf_name |-> etf_name(h.etf_code),
                       adjustment |-> RoundHundredths(h.change.lots_diff[1]),
                       new_lots |-> RoundHundredths(h.change.new_lots[1])]
        up == h.change.change_type = "SHARES_UP"
    IN  [j \in 1 .. Len(base) |->
            IF base[j].stock_code # code THEN base[j]
            ELSE [base[j] EXCEPT
                     !.etf_details = Append(@, etf_detail),
                     !.up_count = IF up THEN @ + 1 ELSE @,
                     !.down_count = IF up THEN @ ELSE @ + 1,
                     !.net_change = NetChangeStep(@, h.change)]]

\* the loop run over the records of one stock alone
RECURSIVE StockChangesFold(_)
StockChangesFold(mine) ==
    IF mine = <<>> THEN <<>>
    ELSE StockChangesPut(StockChangesFold(SubSeq(mine, 1, Len(mine) - 1)), mine[Len(mine)])

\* stock_changes after the loop over a list of records.  An iteration
\* touches the entry of its record's stock alone and a new key goes to the
\* end of the dict, so the dict has the stocks in the order they are first
\* met, each with what the iterations on its own records made of it.
StockChangesOf(hot) ==
    LET first == SelectSeq([j \in 1 .. Len(hot) |-> j],
                           LAMBDA j : \A q \in 1 .. j - 1 :
                                         hot[q].change.stock_code # hot[j].change.stock_code)
    IN  Concat([r \in 1 .. Len(first) |->
                   StockChangesFold(
                       SelectSeq(hot, LAMBDA h : h.change.stock_code
                                                   = hot[first[r]].change.stock_code))])

\* hot_stocks.sort without reverse=True: the least adjusted stocks first
RECURSIVE SortHotStocks_Ascending(_)
SortHotStocks_Ascending(list) ==
    IF list = <<>> THEN <<>>
    ELSE LET m == CHOOSE v \in {list[j].total_adjustments : j \in 1 .. Len(list)} :
                      \A j \in 1 .. Len(list) : list[j].total_adjustments >= v
         IN  SelectSeq(list, LAMBDA x : x.total_adjustments = m)
             \o SortHotStocks_Ascending(SelectSeq(list, LAMBDA x : x.total_adjustments # m))

\* hot_stocks.sort(key=lambda x: x['total_adjustments'], reverse=True): the
\* sort is stable, entries of equal key keep their order
RECURSIVE SortHotStocks(_)
SortHotStocks(list) ==
    IF list = <<>> THEN <<>>
    ELSE LET m == CHOOSE v \in {list[j].total_adjustments : j \in 1 .. Len(list)} :
                      \A j \in 1 .. Len(list) : list[j].total_adjustments <= v
         IN  SelectSeq(list, LAMBDA x : x.total_adjustments = m)
             \o SortHotStocks(SelectSeq(list, LAMBDA x : x.total_adjustments # m))

\* the list hot_stocks of the data bundle.  round(net_change, 2) of a sum
\* that cancelled to a rounding residue is 0.0 or -0.0, which are equal.
hot_stocks(d) ==
    LET sc == StockChangesOf(HotChanges(d))
        list == [j \in 1 .. Len(sc) |->
                    [stock_code |-> sc[j].stock_code,
                     stock_name |-> sc[j].name,
                     total_adjustments |-> sc[j].up_count + sc[j].down_count,
                     net_change |-> RoundHundredths(sc[j].net_change),
                     etf_details |-> sc[j].etf_details]]
        sorted == SortHotStocks(list)
    IN  SubSeq(sorted, 1, IF Len(sorted) < TopN THEN Len(sorted) ELSE TopN)

\* one element of detailed_changes
DetailedChanges(item) ==
    LET added == AddedOf(item.changes)
        removed == RemovedOf(item.changes)
        modified == ModifiedOf(item.changes)
    IN  [etf_code |-> item.etf_code,
         etf_name |-> etf_name(item.etf_code),
         total_changes |-> Len(item.changes),
         added |-> [j \in 1 .. Len(added) |->
                       [stock_code |-> added[j].stock_code,
                        stock_name |-> added[j].stock_name,
                        lots |-> RoundHundredths(added[j].new_lots[1])]],
         removed |-> [j \in 1 .. Len(removed) |->
                         [stock_code |-> removed[j].stock_code,
                          stock_name |-> removed[j].stock_name,
                          lots |-> RoundHundredths(removed[j].old_lots[1])]],
         modified |-> [j \in 1 .. Len(modified) |->
                          [stock_code |-> modified[j].stock_code,
                           stock_name |-> modified[j].stock_name,
                           old_lots |-> RoundHundredths(modified[j].old_lots[1]),
                           new_lots |-> RoundHundredths(modified[j].new_lots[1]),
                           diff |-> RoundHundredths(modified[j].lots_diff[1]),
                           direction |-> IF FloatSign(modified[j].lots_diff[1]) > 0
                                         THEN "up" ELSE "down"]]]

\* HTMLReportGenerator.generate_dashboard_data(changes_dict, date,
\* etf_info_dict) when the clock reads now; generate_all_reports passes no
\* etf_holdings
generate_dashboard_data(d, day, now) ==
    LET items == SortedItems(d)
    IN  [date |-> day,
         update_time |-> now,
         summary |-> [total_etfs |-> Len(d), total_changes |-> TotalChanges(d)],
         change_distribution |->
             [j \in 1 .. Len(items) |->
                 [etf_code |-> items[j].etf_code,
                  etf_name |-> etf_name(items[j].etf_code),
                  count |-> Len(items[j].changes)]],
         hot_stocks |-> hot_stocks(d),
         detailed_changes |-> [j \in 1 .. Len(items) |-> DetailedChanges(items[j])],
         etf_holdings |-> <<>>]

-----------------------------------------------------------------------------
(* The renderers over ChangeSets the detector produces *)

StockCodes ==
    <<"1101", "1216", "1301", "2303", "2317", "2330", "2382",
      "2412", "2454", "2881", "2891", "3008", "3711", "6505">>

\* a snapshot: the stocks number lo .. hi of StockCodes, each with the same
\* number of shares
Snapshot(lo, hi, shares) ==
    [j \in 1 .. (IF hi < lo THEN 0 ELSE hi - lo + 1) |->
        [stock_code |-> StockCodes[lo + j - 1], stock_name |-> "name_a",
         shares |-> shares]]

\* what the detector finds for the three ETFs.  00982A holds the first a
\* stocks, raises each from 100 to 300 shares and buys the next one; 00980A
\* holds the stocks from number b - 1 on, sells the first of them and cuts
\* the others from 300 to 200 shares; 00981A raises the stock that 00982A
\* newly bought, and the last stock, from 300 to 301 shares.
ChangesOf(etf_code, a, b) ==
    IF etf_code = "00982A"
    THEN compare_holdings(Snapshot(1, a, 100),
                          Snapshot(1, a, 300) \o Snapshot(a + 1, a + 1, 100))
    ELSE IF etf_code = "00980A"
    THEN compare_holdings(Snapshot(IF b > 1 THEN b - 1 ELSE b, b - 1, 100)
                              \o Snapshot(b, MaxStocks, 300),
                          Snapshot(b, MaxStocks, 200))
    ELSE compare_holdings(Snapshot(a + 1, a + 1, 300) \o Snapshot(MaxStocks, MaxStocks, 300),
                          Snapshot(a + 1, a + 1, 301) \o Snapshot(MaxStocks, MaxStocks, 301))

\* the ChangeSet detect_changes_batch assembles for a list of ETFs: an ETF
\* without changes is no key
RECURSIVE ChangeSetOf(_, _, _)
ChangeSetOf(codes, a, b) ==
    IF codes = <<>> THEN <<>>
    ELSE LET rest == ChangeSetOf(SubSeq(codes, 1, Len(codes) - 1), a, b)
             result == ChangesOf(codes[Len(codes)], a, b)
         IN  IF result # <<>> THEN ChangesPut(rest, codes[Len(codes)], result) ELSE rest

\* the lists of ETFs the batches are run for
RenderBatches ==
    {<<"00982A", "00980A", "00981A">>, <<"00980A", "00981A", "00982A">>,
     <<"00982A", "00980A">>, <<"00981A", "00980A">>}

\* one stock, "2330", adjusted by several ETFs: by +10, -5 and +20 lots, and
\* from no shares at all to 100 and to 200 shares
ScenarioSets ==
    {<<[etf_code |-> "00980A",
        changes |-> compare_holdings(Snapshot(6, 6, 20000), Snapshot(6, 6, 30000))],
       [etf_code |-> "00981A",
        changes |-> compare_holdings(Snapshot(6, 6, 10000), Snapshot(6, 6, 5000))],
       [etf_code |-> "00982A",
        changes |-> compare_holdings(Snapshot(6, 6, 10000), Snapshot(6, 6, 30000))]>>,
     <<[etf_code |-> "00981A",
        changes |-> compare_holdings(Snapshot(6, 6, 0), Snapshot(6, 6, 100))],
       [etf_code |-> "00980A",
        changes |-> compare_holdings(Snapshot(6, 6, 0), Snapshot(6, 6, 200))]>>}

\* 00982A holds up to one stock more than the first half of the stocks;
\* 00980A holds the stocks from one of the second half on, or none
RenderSets ==
    {ChangeSetOf(codes, a, b) :
        codes \in RenderBatches,
        a \in 0 .. MaxStocks \div 2 + 1,
        b \in MaxStocks \div 2 .. MaxStocks + 1}
    \cup ScenarioSets

InitRender ==
    /\ holdings = {}
    /\ last_write = {}
    /\ updated_count = 0
    /\ ret = 0
    /\ yesterday_holdings = <<>>
    /\ today_holdings = <<>>
    /\ changes = <<>>
    /\ current_date = 0
    /\ etf_codes = <<>>
    /\ i = 0
    /\ previous_date = None
    /\ all_changes = <<>>
    /\ returned = None
    /\ pc = "render"
    /\ changes_dict \in RenderSets
    /\ report_date = 1
    /\ txt_report = None
    /\ md_report = None
    /\ data = None
    /\ NoFiles
    /\ IngestIdle
    /\ MainIdle

\* txt_report = analyzer.generate_report(changes_dict, date)
GenerateReport ==
    /\ pc = "render"
    /\ txt_report = None
    /\ txt_report' = Some(generate_report(changes_dict, report_date))
    /\ UNCHANGED <<store_vars, yesterday_holdings, today_holdings, changes, batch_vars,
                   pc, changes_dict, report_date, md_report, data, file_vars,
                   ingest_vars, main_vars>>

\* md_report = analyzer.generate_markdown_report(changes_dict, date)
GenerateMarkdownReport ==
    /\ pc = "render"
    /\ md_report = None
    /\ md_report' = Some(generate_markdown_report(changes_dict, report_date, clock))
    /\ UNCHANGED <<store_vars, yesterday_holdings, today_holdings, changes, batch_vars,
                   pc, changes_dict, report_date, txt_report, data, file_vars,
                   ingest_vars, main_vars>>

\* data = generate_dashboard_data(changes_dict, date, etf_info_dict)
GenerateDashboardData ==
    /\ pc = "render"
    /\ data = None
    /\ data' = Some(generate_dashboard_data(changes_dict, report_date, clock))
    /\ UNCHANGED <<store_vars, yesterday_holdings, today_holdings, changes, batch_vars,
                   pc, changes_dict, report_date, txt_report, md_report, file_vars,
                   ingest_vars, main_vars>>

NextRender == GenerateReport \/ GenerateMarkdownReport \/ GenerateDashboardData

SpecRender == InitRender /\ [][NextRender]_vars

-----------------------------------------------------------------------------
(* Claims about the data bundle *)

\* the records of a ChangeSet, ETF after ETF, each ETF's in detector order
AllRecords(d) == Concat([j \in 1 .. Len(d) |-> d[j].changes])

\* the SHARES_UP and SHARES_DOWN records of one stock in a ChangeSet
ModifiedRecordsOf(d, code) ==
    SelectSeq(AllRecords(d),
              LAMBDA c : c.stock_code = code /\ c.change_type \in Modified)

\* the sum of the lot deltas of a list of records, in hundredths of a lot
RECURSIVE SumHundredths(_)
SumHundredths(cs) ==
    IF cs = <<>> THEN 0 ELSE cs[1].lots_diff[1].c + SumHundredths(Tail(cs))

\* the float sum of the lot deltas of a list of records, added left to right
RECURSIVE FloatSum(_)
FloatSum(cs) ==
    IF cs = <<>> THEN Zero
    ELSE FloatAdd(FloatSum(SubSeq(cs, 1, Len(cs) - 1)), cs[Len(cs)].lots_diff[1])

\* C11 (as amended): every hot stock of the data bundle has a SHARES_UP or
\* SHARES_DOWN record, its total_adjustments is the number of such records of
\* the stock across the ETFs of the ChangeSet, it has one etf_detail for each
\* of them, and its net_change is the sum of their lots_diff rounded to two
\* decimals; ADDED and REMOVED records count for nothing.  Lot deltas of +10,
\* -5 and +20 from three ETFs give total_adjustments 3 and net_change 25.
C11_HotStocksFromModified ==
    data # None =>
        LET hot == data[1].hot_stocks
        IN  /\ \A j \in 1 .. Len(hot) :
                  LET recs == ModifiedRecordsOf(changes_dict, hot[j].stock_code)
                  IN  /\ Len(recs) >= 1
                      /\ hot[j].total_adjustments = Len(recs)
                      /\ Len(hot[j].etf_details) = Len(recs)
                      /\ FloatEq(hot[j].net_change, SDbl100(SumHundredths(recs)))
            /\ (\A j \in 1 .. Len(changes_dict) :
                     /\ Len(changes_dict[j].changes) = 1
                     /\ changes_dict[j].changes[1].stock_code = "2330"
                     /\ changes_dict[j].changes[1].lots_diff[1].c
                            = <<1000, -500, 2000>>[EtfRank(changes_dict[j].etf_code)])
                => /\ Len(hot) = 1
                   /\ hot[1].total_adjustments = 3
                   /\ FloatEq(hot[1].net_change, SDbl100(2500))

\* a bundle with a stock that two ETFs adjusted and another one bought or
\* sold outright, whose adjustments do not cancel
C11_Witness ==
    /\ data # None
    /\ \E j \in 1 .. Len(data[1].hot_stocks) :
           LET h == data[1].hot_stocks[j]
           IN  /\ h.total_adjustments >= 2
               /\ h.net_change.c # 0
               /\ \E q \in 1 .. Len(AllRecords(changes_dict)) :
                      /\ AllRecords(changes_dict)[q].stock_code = h.stock_code
                      /\ AllRecords(changes_dict)[q].change_type \in {"ADDED", "REMOVED"}

\* C11 (as stated): net_change is the sum of the lots_diff of the stock's
\* modified records
C11_NetChangeIsPlainSum ==
    data # None =>
        \A j \in 1 .. Len(data[1].hot_stocks) :
            FloatEq(data[1].hot_stocks[j].net_change,
                    FloatSum(ModifiedRecordsOf(changes_dict,
                                               data[1].hot_stocks[j].stock_code)))

\* the stocks with a SHARES_UP or SHARES_DOWN record in a ChangeSet
ModifiedStocks(d) ==
    {AllRecords(d)[q].stock_code :
        q \in {q \in 1 .. Len(AllRecords(d)) : AllRecords(d)[q].change_type \in Modified}}

\* C12: hot_stocks has at most 10 entries, in non-increasing order of
\* total_adjustments, no stock twice, and no stock that was left out has
\* more modified records than a stock that is listed.
C12_HotStocksTopTen ==
    data # None =>
        LET hot == data[1].hot_stocks
            listed == {hot[j].stock_code : j \in 1 .. Len(hot)}
        IN  /\ Len(hot) <= 10
            /\ \A j \in 1 .. Len(hot) - 1 :
                   hot[j].total_adjustments >= hot[j + 1].total_adjustments
            /\ \A j, q \in 1 .. Len(hot) : hot[j].stock_code = hot[q].stock_code => j = q
            /\ listed \subseteq ModifiedStocks(changes_dict)
            /\ \A code \in ModifiedStocks(changes_dict) \ listed :
                   \A j \in 1 .. Len(hot) :
                       Len(ModifiedRecordsOf(changes_dict, code)) <= hot[j].total_adjustments

\* a bundle of a ChangeSet with more than ten adjusted stocks, some of them
\* adjusted by more ETFs than others and one of the most adjusted met last
C12_Witness ==
    /\ data # None
    /\ Cardinality(ModifiedStocks(changes_dict)) > 10
    /\ Len(data[1].hot_stocks) = 10
    /\ data[1].hot_stocks[1].total_adjustments > data[1].hot_stocks[10].total_adjustments
    /\ \E code \in ModifiedStocks(changes_dict) :
           /\ \A j \in 1 .. 10 : data[1].hot_stocks[j].stock_code # code
           /\ Len(ModifiedRecordsOf(changes_dict, code))
                  = data[1].hot_stocks[10].total_adjustments
    /\ \E j \in 2 .. 10 :
           /\ data[1].hot_stocks[j].total_adjustments
                  = data[1].hot_stocks[1].total_adjustments
           /\ data[1].hot_stocks[j].stock_code
                  = AllRecords(changes_dict)[Len(AllRecords(changes_dict))].stock_code

-----------------------------------------------------------------------------
(* The report manager *)

\* reports = reports[:90]
MaxReports == 90

\* an entry that counts the ETFs where it should count the records
NewReport_CountsEtfs(d, day) ==
    [date |-> day,
     etf_count |-> Len(d),
     total_changes |-> Len(d),
     etfs |-> [j \in 1 .. Len(d) |-> d[j].etf_code]]

\* the entry _update_reports_index builds for a date
NewReport(d, day) ==
    [date |-> day,
     etf_count |-> Len(d),
     total_changes |-> TotalChanges(d),
     etfs |-> [j \in 1 .. Len(d) |-> d[j].etf_code]]

\* an upsert that never looks for the date's entry and always inserts
UpsertReport_AlwaysInsert(reports, new_report) == <<new_report>> \o reports

\* reports[existing_index] = new_report for the first entry of the date, and
\* reports.insert(0, new_report) when there is none
UpsertReport(reports, new_report) ==
    LET same == {j \in 1 .. Len(reports) : reports[j].date = new_report.date}
    IN  IF same # {}
        THEN LET existing_index == CHOOSE j \in same : \A q \in same : j <= q
             IN  [reports EXCEPT ![existing_index] = new_report]
        ELSE <<new_report>> \o reports

\* reports.sort(key=lambda x: x['date'], reverse=True): the entries of a
\* later date first, the entries of one date in the order they had
RECURSIVE SortReports(_)
SortReports(reports) ==
    IF Len(reports) <= 1 THEN reports
    ELSE LET middle == reports[(Len(reports) + 1) \div 2].date
         IN  SortReports(SelectSeq(reports, LAMBDA x : x.date > middle))
             \o SelectSeq(reports, LAMBDA x : x.date = middle)
             \o SortReports(SelectSeq(reports, LAMBDA x : x.date < middle))

\* a cap that keeps the last 90 entries of the sorted list, the oldest ones
CapReports_Oldest(reports) ==
    SubSeq(reports, IF Len(reports) < MaxReports THEN 1 ELSE Len(reports) - MaxReports + 1,
           Len(reports))

\* reports = reports[:90]
CapReports(reports) ==
    SubSeq(reports, 1, IF Len(reports) < MaxReports THEN Len(reports) ELSE MaxReports)

\* the content of an index file that is not JSON text
NotJson == <<[text |-> "not json"]>>

\* a reading that answers a file it cannot parse with a placeholder entry
LoadReports_Placeholder(index) ==
    IF index = None THEN <<>>
    ELSE IF index[1] = NotJson THEN <<NewReport(<<>>, 0)>>
    ELSE index[1]

\* reports = json.load(f), [] on json.JSONDecodeError and [] when the file
\* does not exist
LoadReports(index) ==
    IF index = None THEN <<>>
    ELSE IF index[1] = NotJson THEN <<>>
    ELSE index[1]

\* ReportManager._update_reports_index(changes_dict, date): the content of
\* reports_index.json afterwards; a missing file reads as the empty list
update_reports_index(index, d, day) ==
    LET reports == LoadReports(index)
    IN  CapReports(SortReports(UpsertReport(reports, NewReport(d, day))))

\* what open(txt_file, mode) and the writes leave in the text file: in
\* append mode a line feed and the report after the old content
WriteTxt(old, append_txt, report) ==
    IF append_txt /\ old # None
    THEN Some(old[1] \o <<[line |-> "line_feed"]>> \o report)
    ELSE Some(report)

\* report_{date}.html: the page carries the date, the update time, the
\* summary and the whole bundle as a script constant
generate_report_html(bundle) ==
    [line |-> "html", date |-> bundle.date, update_time |-> bundle.update_time,
     summary |-> bundle.summary, bundle |-> bundle]

\* the steps of generate_all_reports that write a file, in order
Steps == <<"txt", "md", "json", "html", "index">>

\* the files after generate_all_reports(d, day, append_txt) has completed
\* its first n steps at time now
TxtAfter(n, d, day, append_txt) ==
    IF n >= 1
    THEN [txt_files EXCEPT ![day] = WriteTxt(@, append_txt, generate_report(d, day))]
    ELSE txt_files

MdAfter(n, d, day, now) ==
    IF n >= 2
    THEN [md_files EXCEPT ![day] = Some(generate_markdown_report(d, day, now))]
    ELSE md_files

JsonAfter(n, d, day, now) ==
    IF n >= 3
    THEN [json_files EXCEPT ![day] = Some(generate_dashboard_data(d, day, now))]
    ELSE json_files

HtmlAfter(n, d, day, now) ==
    IF n >= 4
    THEN [html_files EXCEPT
             ![day] = Some(generate_report_html(generate_dashboard_data(d, day, now)))]
    ELSE html_files

IndexAfter(n, d, day) ==
    IF n >= 5 THEN Some(update_reports_index(reports_index, d, day)) ELSE reports_index

\* the call just made and the files it found
CallRecord(d, day, append_txt, now, outcome, failed) ==
    [changes_dict |-> d, date |-> day, append_txt |-> append_txt, now |-> now,
     outcome |-> outcome, failed |-> failed,
     txt_before |-> txt_files[day], md_before |-> md_files[day],
     json_before |-> json_files[day], html_before |-> html_files[day],
     index_before |-> reports_index]

\* the ChangeSets generate_all_reports is called with: none, one of two
\* ETFs met in descending order, one of two other ETFs
ReportSets ==
    {<<>>,
     ChangeSetOf(<<"00982A", "00980A">>, 1, MaxStocks),
     ChangeSetOf(<<"00981A", "00980A">>, 0, MaxStocks + 1)}

InitReports ==
    /\ holdings = {}
    /\ last_write = {}
    /\ updated_count = 0
    /\ ret = 0
    /\ yesterday_holdings = <<>>
    /\ today_holdings = <<>>
    /\ changes = <<>>
    /\ current_date = 0
    /\ etf_codes = <<>>
    /\ i = 0
    /\ all_changes = <<>>
    /\ previous_date = None
    /\ returned = None
    /\ pc = "reports"
    /\ RenderIdle
    /\ NoFiles
    /\ IngestIdle
    /\ MainIdle

\* the caller: all_changes_dict = detect_changes_batch(etf_codes, date_str),
\* for the date of the run
AnalyzeChanges ==
    /\ pc = "reports"
    /\ clock < MaxCalls
    /\ changes_dict' \in ReportSets
    /\ report_date' \in ReportDates
    /\ pc' = "analyzed"
    /\ UNCHANGED <<store_vars, yesterday_holdings, today_holdings, changes, batch_vars,
                   txt_report, md_report, data, file_vars,
                   ingest_vars, main_vars>>

\* ReportManager.generate_all_reports(changes_dict, date, append_txt),
\* returning: at once for an empty ChangeSet (the callers do not even call
\* it then), after the five writes otherwise
GenerateAllReports ==
    /\ pc = "analyzed"
    /\ \E append_txt \in BOOLEAN :
           LET d == changes_dict
               day == report_date
               now == clock + 1
               n == IF d = <<>> THEN 0 ELSE 5
           IN  /\ txt_files' = TxtAfter(n, d, day, append_txt)
               /\ md_files' = MdAfter(n, d, day, now)
               /\ json_files' = JsonAfter(n, d, day, now)
               /\ html_files' = HtmlAfter(n, d, day, now)
               /\ reports_index' = IndexAfter(n, d, day)
               /\ call' = Some(CallRecord(d, day, append_txt, now, "returned", "none"))
               /\ clock' = now
    /\ pc' = "reports"
    /\ UNCHANGED <<store_vars, yesterday_holdings, today_holdings, changes, batch_vars,
                   render_vars,
                   ingest_vars, main_vars>>

\* generate_all_reports when opening the file of one step raises OSError:
\* nothing catches it, the steps before are done, that step and the later
\* ones are not
GenerateAllReportsRaises ==
    /\ pc = "analyzed"
    /\ changes_dict # <<>>
    /\ \E append_txt \in BOOLEAN, k \in 1 .. Len(Steps) :
           LET d == changes_dict
               day == report_date
               now == clock + 1
               n == k - 1
           IN  /\ txt_files' = TxtAfter(n, d, day, append_txt)
               /\ md_files' = MdAfter(n, d, day, now)
               /\ json_files' = JsonAfter(n, d, day, now)
               /\ html_files' = HtmlAfter(n, d, day, now)
               /\ reports_index' = IndexAfter(n, d, day)
               /\ call' = Some(CallRecord(d, day, append_txt, now, "raised", Steps[k]))
               /\ clock' = now
    /\ pc' = "reports"
    /\ UNCHANGED <<store_vars, yesterday_holdings, today_holdings, changes, batch_vars,
                   render_vars,
                   ingest_vars, main_vars>>

NextReports == AnalyzeChanges \/ GenerateAllReports \/ GenerateAllReportsRaises

SpecReports == InitReports /\ [][NextReports]_vars

-----------------------------------------------------------------------------
(* _update_reports_index over many dates *)

\* the dates a run may skip and come back to, and may be re-run for
SpecialDates == {2, 4}

\* the newest date of the index, 0 when there is none
Newest(index) ==
    LET reports == LoadReports(index)
    IN  IF reports = <<>> THEN 0
        ELSE CHOOSE v \in {reports[j].date : j \in 1 .. Len(reports)} :
                 \A j \in 1 .. Len(reports) : reports[j].date <= v

\* the dates the next call may be for: the day after the newest one, the
\* day after that when the day between is a special date, a special date
\* up to the newest one
IndexDays ==
    LET newest == Newest(reports_index)
    IN  {day \in 1 .. MaxIndexDate :
            \/ day = newest + 1
            \/ day = newest + 2 /\ newest + 1 \in SpecialDates
            \/ day \in SpecialDates /\ day <= newest}

InitIndex ==
    /\ holdings = {}
    /\ last_write = {}
    /\ updated_count = 0
    /\ ret = 0
    /\ yesterday_holdings = <<>>
    /\ today_holdings = <<>>
    /\ changes = <<>>
    /\ current_date = 0
    /\ etf_codes = <<>>
    /\ i = 0
    /\ all_changes = <<>>
    /\ previous_date = None
    /\ returned = None
    /\ pc = "index"
    /\ RenderIdle
    /\ txt_files = [d \in ReportDates |-> None]
    /\ md_files = [d \in ReportDates |-> None]
    /\ json_files = [d \in ReportDates |-> None]
    /\ html_files = [d \in ReportDates |-> None]
    /\ reports_index \in {None, Some(<<>>)}
    /\ call = None
    /\ clock = 0
    /\ IngestIdle
    /\ MainIdle

\* the caller of _update_reports_index: the ChangeSet and the date of a run
AnalyzeForIndex ==
    /\ pc = "index"
    /\ \E day \in IndexDays :
           /\ report_date' = day
           /\ changes_dict' \in IF day \in SpecialDates THEN ReportSets \ {<<>>}
                                ELSE {ChangeSetOf(<<"00982A", "00980A">>, 1, MaxStocks)}
    /\ pc' = "index_analyzed"
    /\ UNCHANGED <<store_vars, yesterday_holdings, today_holdings, changes, batch_vars,
                   txt_report, md_report, data, file_vars,
                   ingest_vars, main_vars>>

\* ReportManager._update_reports_index(changes_dict, date)
UpdateReportsIndex ==
    /\ pc = "index_analyzed"
    /\ reports_index' = Some(update_reports_index(reports_index, changes_dict, report_date))
    /\ call' = Some([changes_dict |-> changes_dict, date |-> report_date,
                     index_before |-> reports_index])
    /\ pc' = "index"
    /\ UNCHANGED <<store_vars, yesterday_holdings, today_holdings, changes, batch_vars,
                   render_vars, txt_files, md_files, json_files, html_files, clock,
                   ingest_vars, main_vars>>

NextIndex == AnalyzeForIndex \/ UpdateReportsIndex

SpecIndex == InitIndex /\ [][NextIndex]_vars

\* the same calls when reports_index.json holds text that is not JSON
InitBrokenIndex ==
    /\ holdings = {}
    /\ last_write = {}
    /\ updated_count = 0
    /\ ret = 0
    /\ yesterday_holdings = <<>>
    /\ today_holdings = <<>>
    /\ changes = <<>>
    /\ current_date = 0
    /\ etf_codes = <<>>
    /\ i = 0
    /\ all_changes = <<>>
    /\ previous_date = None
    /\ returned = None
    /\ pc = "index"
    /\ RenderIdle
    /\ txt_files = [d \in ReportDates |-> None]
    /\ md_files = [d \in ReportDates |-> None]
    /\ json_files = [d \in ReportDates |-> None]
    /\ html_files = [d \in ReportDates |-> None]
    /\ reports_index = Some(NotJson)
    /\ call = None
    /\ clock = 0
    /\ IngestIdle
    /\ MainIdle

SpecBrokenIndex == InitBrokenIndex /\ [][NextIndex]_vars

-----------------------------------------------------------------------------
(* Claims about generate_all_reports *)

\* the three reports of a ChangeSet for a date, generated at time now
TxtReportOf(c) == generate_report(c.changes_dict, c.date)
MdReportOf(c) == generate_markdown_report(c.changes_dict, c.date, c.now)
BundleOf(c) == generate_dashboard_data(c.changes_dict, c.date, c.now)

\* a file holds the latest run's report and nothing else
TxtIsLatest(c) == txt_files[c.date] = Some(TxtReportOf(c))
MdIsLatest(c) == md_files[c.date] = Some(MdReportOf(c))
JsonIsLatest(c) == json_files[c.date] = Some(BundleOf(c))
HtmlIsLatest(c) == html_files[c.date] = Some(generate_report_html(BundleOf(c)))

\* the text file holds what it held before the call and the latest run's
\* report after that
TxtIsAppended(c) ==
    /\ txt_files[c.date] # None
    /\ LET old == c.txt_before[1]
           content == txt_files[c.date][1]
           report == TxtReportOf(c)
       IN  /\ Len(content) >= Len(old) + Len(report)
           /\ SubSeq(content, 1, Len(old)) = old
           /\ SubSeq(content, Len(content) - Len(report) + 1, Len(content)) = report

\* a markdown report or a bundle without its generation time
WithoutTime(file) ==
    IF file = None THEN None
    ELSE Some([j \in 1 .. Len(file[1]) |->
                  IF file[1][j].line \in {"md_updated_at", "md_generated_at"}
                  THEN [line |-> file[1][j].line] ELSE file[1][j]])

BundleWithoutTime(file) ==
    IF file = None THEN None ELSE Some([file[1] EXCEPT !.update_time = 0])

\* C13: a call of generate_all_reports with an empty ChangeSet returns
\* normally and leaves, for the date, a text, a markdown and a JSON/HTML
\* artifact saying that nothing changed.
C13_EmptyChangeSetArtifacts ==
    (call # None /\ call[1].changes_dict = <<>>) =>
        /\ call[1].outcome = "returned"
        /\ IF call[1].append_txt /\ call[1].txt_before # None
           THEN TxtIsAppended(call[1]) ELSE TxtIsLatest(call[1])
        /\ MdIsLatest(call[1])
        /\ JsonIsLatest(call[1])
        /\ HtmlIsLatest(call[1])

\* C14: when the write of one renderer's artifact fails, the artifacts of
\* the other renderers are still produced for the date: a failure of the
\* text file leaves the markdown report and the JSON/HTML bundle of this run
\* on disk, and likewise for the other two.
C14_RenderersIndependent ==
    (call # None /\ call[1].outcome = "raised" /\ call[1].failed # "index") =>
        /\ call[1].failed # "txt" =>
               IF call[1].append_txt /\ call[1].txt_before # None
               THEN TxtIsAppended(call[1]) ELSE TxtIsLatest(call[1])
        /\ call[1].failed # "md" => MdIsLatest(call[1])
        /\ call[1].failed \notin {"json", "html"} =>
               JsonIsLatest(call[1]) /\ HtmlIsLatest(call[1])

\* C17: after a call with append_txt = false that returned, for a date that
\* had artifacts of an earlier run, the text, markdown and JSON artifacts of
\* the date hold the content of that call and nothing of the earlier run;
\* and when the artifacts and the index entry of the date already were
\* those of the same non-empty ChangeSet, the call changes nothing but the
\* generation time.
C17_RerunOverwrites ==
    (/\ call # None
     /\ call[1].outcome = "returned"
     /\ ~call[1].append_txt
     /\ call[1].txt_before # None
     /\ call[1].md_before # None
     /\ call[1].json_before # None) =>
        /\ TxtIsLatest(call[1])
        /\ MdIsLatest(call[1])
        /\ JsonIsLatest(call[1])
        /\ (/\ call[1].changes_dict # <<>>
            /\ call[1].txt_before = Some(TxtReportOf(call[1]))
            /\ WithoutTime(call[1].md_before) = WithoutTime(Some(MdReportOf(call[1])))
            /\ BundleWithoutTime(call[1].json_before)
                   = BundleWithoutTime(Some(BundleOf(call[1])))
            /\ call[1].index_before # None
            /\ \E j \in 1 .. Len(call[1].index_before[1]) :
                   call[1].index_before[1][j]
                       = NewReport(call[1].changes_dict, call[1].date))
           => /\ txt_files[call[1].date] = call[1].txt_before
              /\ WithoutTime(md_files[call[1].date]) = WithoutTime(call[1].md_before)
              /\ BundleWithoutTime(json_files[call[1].date])
                     = BundleWithoutTime(call[1].json_before)
              /\ reports_index = call[1].index_before

\* C18: after a call with append_txt = true that returned, the text file
\* holds its old content followed by the new report when it existed before,
\* and the new report alone when it did not; the markdown, JSON and HTML
\* artifacts hold the content of that run alone.
C18_AppendOnlyText ==
    (call # None /\ call[1].outcome = "returned" /\ call[1].append_txt) =>
        /\ IF call[1].txt_before # None
           THEN TxtIsAppended(call[1]) ELSE TxtIsLatest(call[1])
        /\ MdIsLatest(call[1])
        /\ JsonIsLatest(call[1])
        /\ HtmlIsLatest(call[1])

-----------------------------------------------------------------------------
(* Claims about the reports index *)

\* C15: whatever calls of _update_reports_index were made from an absent or
\* empty index, the index has no two entries of one date, its dates go
\* strictly down from entry to entry, and it has at most 90 entries.
C15_IndexSortedUniqueCapped ==
    reports_index # None =>
        LET reports == reports_index[1]
        IN  /\ \A j, q \in 1 .. Len(reports) : reports[j].date = reports[q].date => j = q
            /\ \A j \in 1 .. Len(reports) - 1 : reports[j].date > reports[j + 1].date
            /\ Len(reports) <= 90

\* a full index just after a call for an older date that it did not hold,
\* and had no room for
C15_Witness ==
    /\ pc = "index"
    /\ call # None
    /\ call[1].index_before # None
    /\ Len(call[1].index_before[1]) = 90
    /\ \A j \in 1 .. 90 : call[1].index_before[1][j].date > call[1].date
    /\ Len(reports_index[1]) = 90
    /\ reports_index[1][1].date = MaxIndexDate

\* C16: a call of _update_reports_index for a date the index holds puts,
\* where that date's entry was, an entry with the number of ETFs of the
\* ChangeSet, the number of its records and its ETF ids, adds no entry,
\* and leaves the entry of every other date as it was.
C16_RerunReplacesEntry ==
    (/\ pc = "index"
     /\ call # None
     /\ call[1].index_before # None
     /\ \E j \in 1 .. Len(call[1].index_before[1]) :
            call[1].index_before[1][j].date = call[1].date)
    => LET before == call[1].index_before[1]
           reports == reports_index[1]
           d == call[1].changes_dict
       IN  /\ Len(reports) = Len(before)
           /\ \A j \in 1 .. Len(before) :
                  IF before[j].date = call[1].date
                  THEN /\ reports[j].date = call[1].date
                       /\ reports[j].etf_count = Len(d)
                       /\ reports[j].total_changes = Len(AllRecords(d))
                       /\ reports[j].etfs = [q \in 1 .. Len(d) |-> d[q].etf_code]
                  ELSE reports[j] = before[j]

\* an index of several dates just after a re-run for a date in its middle,
\* with a ChangeSet of other ETFs and another number of records than the
\* run before
C16_Witness ==
    /\ pc = "index"
    /\ call # None
    /\ call[1].index_before # None
    /\ \E j \in 2 .. Len(call[1].index_before[1]) - 1 :
           /\ call[1].index_before[1][j].date = call[1].date
           /\ call[1].index_before[1][j].etfs # reports_index[1][j].etfs
           /\ call[1].index_before[1][j].total_changes # reports_index[1][j].total_changes
           /\ reports_index[1][j].total_changes # reports_index[1][j].etf_count

-----------------------------------------------------------------------------
(* Claims about the order of the rendered records *)

\* the bucket a rendered line or a record belongs to
BucketOf(kind) ==
    IF kind \in {"added", "added_row", "ADDED"} THEN "added"
    ELSE IF kind \in {"removed", "removed_row", "REMOVED"} THEN "removed"
    ELSE "modified"

\* the ETF a line of a text or markdown report stands under
OwnerOf(lines, j) ==
    LET heads == {q \in 1 .. j : lines[q].line \in {"etf", "summary"}}
    IN  lines[CHOOSE q \in heads : \A p \in heads : p <= q].etf_code

\* the records a text or markdown report lists, in the order of its lines:
\* ETF, bucket and stock of each
ListingOf(lines) ==
    LET at == SelectSeq([j \in 1 .. Len(lines) |-> j],
                        LAMBDA j : lines[j].line \in {"added", "removed", "modified",
                                                      "added_row", "removed_row",
                                                      "modified_row"})
    IN  [q \in 1 .. Len(at) |->
            <<OwnerOf(lines, at[q]), BucketOf(lines[at[q]].line), lines[at[q]].stock_code>>]

\* the ETFs a text or markdown report has a block for, in the order of the
\* blocks
HeadsOf(lines) ==
    LET heads == SelectSeq(lines, LAMBDA l : l.line \in {"etf", "summary"})
    IN  [q \in 1 .. Len(heads) |-> heads[q].etf_code]

\* the records detailed_changes lists, in the order of its elements and of
\* the lists added, removed, modified of each
BundleListingOf(detailed) ==
    Concat([j \in 1 .. Len(detailed) |->
               [q \in 1 .. Len(detailed[j].added) |->
                   <<detailed[j].etf_code, "added", detailed[j].added[q].stock_code>>]
               \o [q \in 1 .. Len(detailed[j].removed) |->
                      <<detailed[j].etf_code, "removed", detailed[j].removed[q].stock_code>>]
               \o [q \in 1 .. Len(detailed[j].modified) |->
                      <<detailed[j].etf_code, "modified",
                        detailed[j].modified[q].stock_code>>]])

\* the keys of a ChangeSet in ascending order
AscendingKeys(d) ==
    SelectSeq(EtfOrder, LAMBDA e : \E j \in 1 .. Len(d) : d[j].etf_code = e)

\* the records of one bucket of one ETF of a ChangeSet, in detector order
BucketListing(d, e, bucket) ==
    LET cs == d[CHOOSE j \in 1 .. Len(d) : d[j].etf_code = e].changes
        of == SelectSeq(cs, LAMBDA c : BucketOf(c.change_type) = bucket)
    IN  [q \in 1 .. Len(of) |-> <<e, bucket, of[q].stock_code>>]

\* the order the records of a ChangeSet are to be listed in
ExpectedListing(d) ==
    Concat([r \in 1 .. Len(AscendingKeys(d)) |->
               BucketListing(d, AscendingKeys(d)[r], "added")
               \o BucketListing(d, AscendingKeys(d)[r], "removed")
               \o BucketListing(d, AscendingKeys(d)[r], "modified")])

\* C20: the text report, the markdown report and the data bundle list the
\* ETFs in ascending order of their ids whatever the key order of the
\* ChangeSet, and under each ETF its ADDED records, then its REMOVED
\* records, then its modified records, each bucket in detector order.
C20_RenderOrder ==
    /\ txt_report # None =>
           /\ HeadsOf(txt_report[1]) = AscendingKeys(changes_dict)
           /\ ListingOf(txt_report[1]) = ExpectedListing(changes_dict)
    /\ md_report # None =>
           /\ HeadsOf(md_report[1]) = AscendingKeys(changes_dict)
           /\ ListingOf(md_report[1]) = ExpectedListing(changes_dict)
    /\ data # None =>
           /\ [j \in 1 .. Len(data[1].change_distribution) |->
                  data[1].change_distribution[j].etf_code] = AscendingKeys(changes_dict)
           /\ [j \in 1 .. Len(data[1].detailed_changes) |->
                  data[1].detailed_changes[j].etf_code] = AscendingKeys(changes_dict)
           /\ BundleListingOf(data[1].detailed_changes) = ExpectedListing(changes_dict)

\* the three renderings of a ChangeSet whose keys are not in ascending
\* order and that has an ETF with records in two buckets, several of them
\* in one
C20_Witness ==
    /\ txt_report # None
    /\ md_report # None
    /\ data # None
    /\ Len(changes_dict) = 3
    /\ EtfRank(changes_dict[1].etf_code) > EtfRank(changes_dict[2].etf_code)
    /\ \E j \in 1 .. Len(changes_dict) :
           /\ Len(BucketListing(changes_dict, changes_dict[j].etf_code, "modified")) >= 2
           /\ Len(BucketListing(changes_dict, changes_dict[j].etf_code, "added")) >= 1
    /\ \E j \in 1 .. Len(changes_dict) :
           Len(BucketListing(changes_dict, changes_dict[j].etf_code, "removed")) >= 1

-----------------------------------------------------------------------------
(* Claims about the counts of the outputs *)

\* the records of a ChangeSet, each named by its position
RecordPositions(d) ==
    {p \in (1 .. Len(d)) \X (1 .. 2 * (MaxStocks + 2)) : p[2] <= Len(d[p[1]].changes)}

\* the sum of the counts of change_distribution
RECURSIVE SumCounts(_)
SumCounts(distribution) ==
    IF distribution = <<>> THEN 0
    ELSE Head(distribution).count + SumCounts(Tail(distribution))

\* the number of elements of the three buckets of detailed_changes that
\* name a stock
TimesListed(detailed, stock_code) ==
    Cardinality({q \in 1 .. Len(detailed.added) :
                    detailed.added[q].stock_code = stock_code})
    + Cardinality({q \in 1 .. Len(detailed.removed) :
                      detailed.removed[q].stock_code = stock_code})
    + Cardinality({q \in 1 .. Len(detailed.modified) :
                      detailed.modified[q].stock_code = stock_code})

\* the entry of a date in the index
EntriesOf(index, day) == SelectSeq(index, LAMBDA x : x.date = day)

\* C21: after generate_all_reports has returned for a non-empty ChangeSet,
\* the three buckets of each ETF in the data bundle hold each of its records
\* exactly once and their sizes sum to the ETF's record count; the number
\* of ETFs of the bundle, of the text and markdown reports and of the index
\* entry is the number of keys; and total_changes of the bundle, of the
\* reports and of the index entry is the number of records, which is also
\* the sum of the counts of change_distribution.
C21_BucketsAndCounts ==
    (call # None /\ call[1].outcome = "returned" /\ call[1].changes_dict # <<>>) =>
        LET d == call[1].changes_dict
            bundle == json_files[call[1].date][1]
            txt == txt_files[call[1].date][1]
            md == md_files[call[1].date][1]
            entries == EntriesOf(reports_index[1], call[1].date)
            records == Cardinality(RecordPositions(d))
        IN  /\ Len(bundle.detailed_changes) = Len(d)
            /\ \A j \in 1 .. Len(d) :
                   \E q \in 1 .. Len(bundle.detailed_changes) :
                       LET detailed == bundle.detailed_changes[q]
                       IN  /\ detailed.etf_code = d[j].etf_code
                           /\ Len(detailed.added) + Len(detailed.removed)
                                  + Len(detailed.modified) = Len(d[j].changes)
                           /\ detailed.total_changes = Len(d[j].changes)
                           /\ \A r \in 1 .. Len(d[j].changes) :
                                  TimesListed(detailed, d[j].changes[r].stock_code) = 1
            /\ bundle.summary.total_etfs = Len(d)
            /\ Len(bundle.change_distribution) = Len(d)
            /\ bundle.summary.total_changes = records
            /\ SumCounts(bundle.change_distribution) = records
            /\ Len(ListingOf(txt)) >= records
            /\ txt[Len(txt) - 1].etf_count = Len(d)
            /\ txt[Len(txt) - 1].total_changes = records
            /\ Len(ListingOf(md)) = records
            /\ md[4].etf_count = Len(d)
            /\ md[4].total_changes = records
            /\ Len(entries) = 1
            /\ entries[1].etf_count = Len(d)
            /\ Len(entries[1].etfs) = Len(d)
            /\ entries[1].total_changes = records

\* a returned call for a ChangeSet of two ETFs with more records than ETFs,
\* one of them with records in two buckets, on a date that already had an
\* index entry
C21_Witness ==
    /\ call # None
    /\ call[1].outcome = "returned"
    /\ Len(call[1].changes_dict) = 2
    /\ Cardinality(RecordPositions(call[1].changes_dict)) > 2
    /\ \E j \in 1 .. 2 :
           /\ ModifiedOf(call[1].changes_dict[j].changes) # <<>>
           /\ AddedOf(call[1].changes_dict[j].changes) # <<>>
    /\ call[1].index_before # None
    /\ EntriesOf(call[1].index_before[1], call[1].date) # <<>>

-----------------------------------------------------------------------------
(* Claims about the names compare_holdings reports *)

\* a list with every stock_name replaced by one name
SameNames(list) == [j \in 1 .. Len(list) |-> [list[j] EXCEPT !.stock_name = "name_a"]]

\* C25: whatever the names of the two snapshots, compare_holdings returns
\* the records it returns for the same rows under one common name, except
\* for the names; an ADDED or modified record carries the name of the
\* stock's row in the current snapshot and a REMOVED record the name of
\* its row in the previous snapshot.
C25_NamesFromCurrent ==
    pc = "compared" =>
        /\ SameNames(changes)
               = compare_holdings(SameNames(yesterday_holdings), SameNames(today_holdings))
        /\ \A j \in 1 .. Len(changes) :
               changes[j].stock_name =
                   IF changes[j].change_type = "REMOVED"
                   THEN LastRow(yesterday_holdings, changes[j].stock_code).stock_name
                   ELSE LastRow(today_holdings, changes[j].stock_code).stock_name

\* a comparison of snapshots that hold one stock under two names with two
\* share counts, and lack another stock on one side
C25_Witness ==
    /\ pc = "compared"
    /\ \E j \in 1 .. Len(changes) :
           /\ changes[j].change_type \in Modified
           /\ LastRow(yesterday_holdings, changes[j].stock_code).stock_name
                  # changes[j].stock_name
    /\ \E j \in 1 .. Len(changes) : changes[j].change_type = "REMOVED"

-----------------------------------------------------------------------------
(* Claims about the direction shown for a modified record *)

\* the record of a ChangeSet for a stock of an ETF
RecordOf(d, e, stock_code) ==
    LET cs == d[CHOOSE j \in 1 .. Len(d) : d[j].etf_code = e].changes
    IN  cs[CHOOSE q \in 1 .. Len(cs) : cs[q].stock_code = stock_code]

\* C27: the difference in lots of a modified record is positive exactly
\* when it is a SHARES_UP record and negative exactly when it is a
\* SHARES_DOWN record; the text report shows the up arrow, the markdown
\* report the sign "+" and the data bundle the direction "up" exactly for
\* the SHARES_UP records, and the down arrow and "down" exactly for the
\* SHARES_DOWN records.
C27_DirectionMatchesKind ==
    /\ \A j \in 1 .. Len(AllRecords(changes_dict)) :
           LET c == AllRecords(changes_dict)[j]
           IN  c.change_type \in Modified =>
                   /\ FloatSign(c.lots_diff[1]) > 0 <=> c.change_type = "SHARES_UP"
                   /\ FloatSign(c.lots_diff[1]) < 0 <=> c.change_type = "SHARES_DOWN"
    /\ txt_report # None =>
           \A j \in 1 .. Len(txt_report[1]) :
               txt_report[1][j].line = "modified" =>
                   LET c == RecordOf(changes_dict, OwnerOf(txt_report[1], j),
                                     txt_report[1][j].stock_code)
                   IN  txt_report[1][j].arrow = "up" <=> c.change_type = "SHARES_UP"
    /\ md_report # None =>
           \A j \in 1 .. Len(md_report[1]) :
               md_report[1][j].line = "modified_row" =>
                   LET c == RecordOf(changes_dict, OwnerOf(md_report[1], j),
                                     md_report[1][j].stock_code)
                   IN  /\ md_report[1][j].sign = "+" <=> c.change_type = "SHARES_UP"
                       /\ md_report[1][j].emoji = "chart_up" <=> c.change_type = "SHARES_UP"
    /\ data # None =>
           \A j \in 1 .. Len(data[1].detailed_changes) :
               \A q \in 1 .. Len(data[1].detailed_changes[j].modified) :
                   LET m == data[1].detailed_changes[j].modified[q]
                       c == RecordOf(changes_dict, data[1].detailed_changes[j].etf_code,
                                     m.stock_code)
                   IN  m.direction = "up" <=> c.change_type = "SHARES_UP"

-----------------------------------------------------------------------------
(* Claims about the entries the capped index keeps *)

\* the entries of an index file, none when there is no file
EntriesIn(index) ==
    IF index = None THEN {} ELSE {index[1][j] : j \in 1 .. Len(index[1])}

\* the entries the call had to choose from: those of the other dates that
\* the index held, and the new one
PoolOf(c) ==
    {x \in EntriesIn(c.index_before) : x.date # c.date}
        \cup {NewReport(c.changes_dict, c.date)}

\* the index holds the 90 entries of the pool with the greatest dates, or
\* the whole pool when that has no more than 90
KeepsNewest(c) ==
    LET kept == EntriesIn(reports_index)
        pool == PoolOf(c)
    IN  /\ kept \subseteq pool
        /\ Len(reports_index[1]) = Cardinality(kept)
        /\ Cardinality(kept)
               = IF Cardinality(pool) < MaxReports THEN Cardinality(pool) ELSE MaxReports
        /\ \A x \in kept : \A y \in pool \ kept : x.date > y.date

\* C24 (as stated): after _update_reports_index(changes, d) the index
\* consists of the 90 entries with the greatest dates among the previous
\* entries and the new one, and holds an entry for d.
C24_ReportedDatePresent ==
    (pc = "index" /\ call # None) =>
        /\ KeepsNewest(call[1])
        /\ \E x \in EntriesIn(reports_index) : x.date = call[1].date

\* C24 (amended): after _update_reports_index(changes, d) the index
\* consists of the 90 entries with the greatest dates among the previous
\* entries of other dates and the new one; it holds an entry for d exactly
\* when fewer than 90 of the previous entries have a date after d, and is
\* the previous index otherwise.
C24_CapDropsOldest ==
    (pc = "index" /\ call # None) =>
        LET later == {x \in EntriesIn(call[1].index_before) : x.date > call[1].date}
        IN  /\ KeepsNewest(call[1])
            /\ (NewReport(call[1].changes_dict, call[1].date) \in EntriesIn(reports_index))
                   <=> Cardinality(later) < MaxReports
            /\ Cardinality(later) >= MaxReports => reports_index = call[1].index_before

\* a full index just after a call for a date later than all of its dates,
\* which cost it its oldest entry
C24_Witness ==
    /\ pc = "index"
    /\ call # None
    /\ call[1].index_before # None
    /\ Len(call[1].index_before[1]) = MaxReports
    /\ \A x \in EntriesIn(call[1].index_before) : x.date < call[1].date
    /\ reports_index[1][1].date = call[1].date
    /\ call[1].index_before[1][MaxReports] \notin EntriesIn(reports_index)

-----------------------------------------------------------------------------
(* Claims about an index file that cannot be parsed *)

-----------------------------------------------------------------------------
(* Claims about an ingestion and its readers *)

\* the rows of a list as a set
RowSet(rows) == {rows[j] : j \in 1 .. Len(rows)}

\* the snapshot of ETF 00980A for date 1 in a set of rows
SnapshotIn(db) == {r \in db : r.etf_code = "00980A" /\ r.date = 1}

\* C23: what a reader gets from get_holdings_by_date while or after an
\* insert_holdings call is the snapshot as it was before the call or the
\* snapshot with every row of the call written, never one with some of the
\* rows written and others not.
C23_NoHalfWrittenSnapshot ==
    (seen # None /\ seen[1].call # None) =>
        LET c == seen[1].call[1]
        IN  \/ RowSet(seen[1].rows) = SnapshotIn(c.db_before)
            \/ RowSet(seen[1].rows) = SnapshotIn(insert_holdings(c.db_before, c.holdings).db)

\* a read made when the writer had written the first of two rows for two
\* stocks, both of them new to the snapshot or changed
C23_Witness ==
    /\ seen # None
    /\ seen[1].call # None
    /\ seen[1].n = 1
    /\ Len(seen[1].call[1].holdings) = 2
    /\ seen[1].call[1].holdings[1].stock_code # seen[1].call[1].holdings[2].stock_code
    /\ \A j \in 1 .. 2 : seen[1].call[1].holdings[j] \notin seen[1].call[1].db_before
    /\ SnapshotIn(seen[1].call[1].db_before) # {}

PriorRow(c, j) ==
    LET earlier == {q \in 1 .. j - 1 : Key(c.holdings[q]) = Key(c.holdings[j])}
        old == {r \in c.db_before : Key(r) = Key(c.holdings[j])}
    IN  IF earlier # {}
        THEN Some(c.holdings[CHOOSE q \in earlier : \A m \in earlier : m <= q])
        ELSE IF old # {} THEN Some(CHOOSE r \in old : TRUE)
        ELSE None

\* the rows of the list that are new or that change the shares, or the
\* weight by more than 0.01, of the row they replace
Counted(c) ==
    {j \in 1 .. Len(c.holdings) :
        \/ PriorRow(c, j) = None
        \/ HasChanged(PriorRow(c, j)[1], c.holdings[j])}

\* no two rows of a list have the same etf_code, stock_code and date
NoRepeatedKey(list) ==
    \A a, b \in 1 .. Len(list) : Key(list[a]) = Key(list[b]) => a = b

\* C30 (as stated): insert_holdings returns the number of rows newly
\* inserted plus the number of rows that changed the shares or, by more
\* than 0.01, the weight of an existing row; a call with the list of the
\* call before returns 0 and leaves the rows of the table as they were.
C30_SecondInsertReturnsZero ==
    (txn = None /\ store_call # None /\ store_call[1].returned) =>
        /\ ret = Cardinality(Counted(store_call[1]))
        /\ store_call[1].again =>
               /\ ret = 0
               /\ holdings = store_call[1].db_before

\* C30 (amended): the same, but the second call returns 0 when no two rows
\* of the list have the same key; the rows of the table are left as they
\* were in every case.
C30_ReturnsInsertedPlusUpdated ==
    (txn = None /\ store_call # None /\ store_call[1].returned) =>
        /\ ret = Cardinality(Counted(store_call[1]))
        /\ store_call[1].again => holdings = store_call[1].db_before
        /\ (store_call[1].again /\ NoRepeatedKey(store_call[1].holdings)) => ret = 0

\* a second call with a list of two rows for two stocks, after a first call
\* that inserted one of them and updated the other
C30_Witness ==
    /\ txn = None
    /\ store_call # None
    /\ store_call[1].returned
    /\ store_call[1].again
    /\ Len(store_call[1].holdings) = 2
    /\ NoRepeatedKey(store_call[1].holdings)
    /\ ret = 0
    /\ holdings # {}

-----------------------------------------------------------------------------
(* main.py: a run of main() on a Friday or on the Saturday after it, at or  *)
(* after 10:00 UTC.  Every ETF holds the stock 2313 and has a snapshot of   *)
(* the Thursday.                                                            *)

\* number of issuers of main's chain that are modelled
MaxIssuers == 2

\* the issuers in the order main() updates them: the flag that selects the
\* issuer, the keys of its scraper's mapping in their order, the append_txt
\* its daily_update_* passes to generate_all_reports, and whether it moves
\* its date back from a weekend day (daily_update_ezmoney does not)
AllIssuers ==
    <<[flag |-> "ezmoney", etfs |-> <<"00981A">>, append_txt |-> FALSE,
       avoids_weekend |-> FALSE],
      [flag |-> "nomura", etfs |-> <<"00980A", "00985A">>, append_txt |-> TRUE,
       avoids_weekend |-> TRUE],
      [flag |-> "capital", etfs |-> <<"00982A", "00992A">>, append_txt |-> TRUE,
       avoids_weekend |-> TRUE],
      [flag |-> "fhtrust", etfs |-> <<"00991A">>, append_txt |-> TRUE,
       avoids_weekend |-> TRUE],
      [flag |-> "ctbc", etfs |-> <<"00995A">>, append_txt |-> TRUE,
       avoids_weekend |-> TRUE],
      [flag |-> "fsitc", etfs |-> <<"00994A">>, append_txt |-> TRUE,
       avoids_weekend |-> TRUE],
      [flag |-> "tsit", etfs |-> <<"00987A">>, append_txt |-> TRUE,
       avoids_weekend |-> TRUE],
      [flag |-> "allianz", etfs |-> <<"00984A">>, append_txt |-> TRUE,
       avoids_weekend |-> TRUE]>>

Issuers == SubSeq(AllIssuers, 1, MaxIssuers)

\* the ETFs of the issuers
IssuerEtfs == UNION {{Issuers[k].etfs[j] : j \in 1 .. Len(Issuers[k].etfs)} :
                        k \in 1 .. Len(Issuers)}

\* the days: the Thursday of the snapshots before the run, the Friday and
\* the Saturday
Thursday == 0
Friday == 1
Saturday == 2

\* while target_date.weekday() >= 5: target_date -= timedelta(days=1)
AvoidWeekend(day) == IF day = Saturday THEN Friday ELSE day

\* the date_str (storage_date_str) of the k-th issuer's daily_update_*
UpdateDate(k, day) == IF Issuers[k].avoids_weekend THEN AvoidWeekend(day) ELSE day

\* the configuration switches main.py imports from src.config
ENABLE_CHANGE_TRACKING == TRUE
SAVE_CHANGE_REPORTS == TRUE

\* the command lines: --all, no flag, one issuer, two issuers
MainArgs == {{"all"}, {}, {"nomura"}, {"ezmoney", "nomura"}}

\* the row a scraper builds for an ETF and a date
ScrapedRow(etf_code, date, p) == Row(<<etf_code, "2313", date>>, p)

\* the snapshots of the Thursday: 100 shares
BaselineRows ==
    {Row(<<e, "2313", Thursday>>,
         [stock_name |-> "name_a", shares |-> 100, market_value |-> 0, weight |-> 6]) :
        e \in IssuerEtfs}

\* not (args.ezmoney or ... or args.all): main runs daily_update_ezmoney()
NoArguments(flags) == flags = {}

\* if args.<flag> or args.all
Selected(flags, k) ==
    IF NoArguments(flags) THEN Issuers[k].flag = "ezmoney"
    ELSE Issuers[k].flag \in flags \/ "all" \in flags

\* skip_individual_reports = args.all
skip_individual_reports(flags) == "all" \in flags

\* the generate_report a selected issuer's daily_update_* is called with
generate_report_arg(flags) ==
    IF NoArguments(flags) THEN TRUE ELSE ~skip_individual_reports(flags)

\* [etf['etf_code'] for etf in db.get_active_etfs()]
active_etf_codes(listed) == SelectSeq(EtfOrder, LAMBDA e : e \in listed)

InitMain ==
    /\ holdings = BaselineRows
    /\ last_write = holdings
    /\ updated_count = 0
    /\ ret = 0
    /\ yesterday_holdings = <<>>
    /\ today_holdings = <<>>
    /\ changes = <<>>
    /\ current_date = 0
    /\ etf_codes = <<>>
    /\ i = 0
    /\ previous_date = None
    /\ all_changes = <<>>
    /\ returned = None
    /\ pc = "main"
    /\ RenderIdle
    /\ NoFiles
    /\ IngestIdle
    /\ run_day \in {Friday, Saturday}
    /\ args \in MainArgs
    /\ issuer = 1
    /\ etf_i = 0
    /\ log = <<>>
    /\ exit_code = None
    /\ report_calls = <<>>
    /\ etf_list = {}

\* main reaches an issuer that is selected: daily_update_*() begins and
\* db.insert_etf_list lists the issuer's ETFs
DailyUpdate ==
    /\ pc = "main"
    /\ issuer <= Len(Issuers)
    /\ Selected(args, issuer)
    /\ etf_list' = etf_list \cup {Issuers[issuer].etfs[j] : j \in 1 .. Len(Issuers[issuer].etfs)}
    /\ etf_i' = 0
    /\ pc' = "update"
    /\ UNCHANGED <<store_vars, yesterday_holdings, today_holdings, changes, batch_vars,
                   render_vars, file_vars, ingest_vars,
                   run_day, args, issuer, log, exit_code, report_calls>>

\* main reaches an issuer that is not selected
SkipUpdate ==
    /\ pc = "main"
    /\ issuer <= Len(Issuers)
    /\ ~Selected(args, issuer)
    /\ issuer' = issuer + 1
    /\ UNCHANGED <<store_vars, yesterday_holdings, today_holdings, changes, batch_vars,
                   pc, render_vars, file_vars, ingest_vars,
                   run_day, args, etf_i, log, exit_code, report_calls, etf_list>>

\* one iteration of the loop over the issuer's ETFs in which nothing
\* raises: the scraper returns rows, which insert_holdings stores, or none
UpdateEtf ==
    /\ pc = "update"
    /\ etf_i < Len(Issuers[issuer].etfs)
    /\ LET etf_code == Issuers[issuer].etfs[etf_i + 1]
       IN  \/ \E p \in Payloads :
                  LET list == <<ScrapedRow(etf_code, UpdateDate(issuer, run_day), p)>>
                      st == insert_holdings(holdings, list)
                  IN  /\ holdings' = st.db
                      /\ updated_count' = st.updated_count
                      /\ ret' = st.inserted_count + st.updated_count
                      /\ last_write' = {r \in last_write : Key(r) # Key(list[1])}
                                           \cup {list[1]}
                      /\ log' = Append(log, [level |-> "info", etf_code |-> etf_code])
           \/ /\ log' = Append(log, [level |-> "warning", etf_code |-> etf_code])
              /\ UNCHANGED store_vars
    /\ etf_i' = etf_i + 1
    /\ UNCHANGED <<yesterday_holdings, today_holdings, changes, batch_vars,
                   pc, render_vars, file_vars, ingest_vars,
                   run_day, args, issuer, exit_code, report_calls, etf_list>>

\* one iteration in which scraper.get_etf_holdings or db.insert_holdings
\* raises: except Exception logs the error and the loop goes on
UpdateEtfRaises ==
    /\ pc = "update"
    /\ etf_i < Len(Issuers[issuer].etfs)
    /\ log' = Append(log, [level |-> "error", etf_code |-> Issuers[issuer].etfs[etf_i + 1]])
    /\ etf_i' = etf_i + 1
    /\ UNCHANGED <<store_vars, yesterday_holdings, today_holdings, changes, batch_vars,
                   pc, render_vars, file_vars, ingest_vars,
                   run_day, args, issuer, exit_code, report_calls, etf_list>>

\* after the loop, if generate_report and ENABLE_CHANGE_TRACKING and
\* SAVE_CHANGE_REPORTS: detect_changes_batch(list(etfs.keys()), date_str)
\* is called
TrackChanges ==
    /\ pc = "update"
    /\ etf_i = Len(Issuers[issuer].etfs)
    /\ generate_report_arg(args) /\ ENABLE_CHANGE_TRACKING /\ SAVE_CHANGE_REPORTS
    /\ etf_codes' = Issuers[issuer].etfs
    /\ current_date' = UpdateDate(issuer, run_day)
    /\ i' = 0
    /\ all_changes' = <<>>
    /\ returned' = None
    /\ pc' = "batch"
    /\ UNCHANGED <<store_vars, yesterday_holdings, today_holdings, changes,
                   previous_date, render_vars, file_vars, ingest_vars, main_vars>>

\* after the loop, otherwise: daily_update_* returns (the retention sweep
\* of daily_update_ezmoney finds no row older than the horizon)
EndUpdate ==
    /\ pc = "update"
    /\ etf_i = Len(Issuers[issuer].etfs)
    /\ ~(generate_report_arg(args) /\ ENABLE_CHANGE_TRACKING /\ SAVE_CHANGE_REPORTS)
    /\ issuer' = issuer + 1
    /\ pc' = "main"
    /\ UNCHANGED <<store_vars, yesterday_holdings, today_holdings, changes, batch_vars,
                   render_vars, file_vars, ingest_vars,
                   run_day, args, etf_i, log, exit_code, report_calls, etf_list>>

\* the files and the history after `if changes_dict:
\* generate_all_reports(changes_dict, date_str, append_txt)`
ReportsWritten(d, append_txt) ==
    LET now == clock + 1
        day == current_date
        n == IF d = <<>> THEN 0 ELSE 5
    IN  /\ txt_files' = TxtAfter(n, d, day, append_txt)
        /\ md_files' = MdAfter(n, d, day, now)
        /\ json_files' = JsonAfter(n, d, day, now)
        /\ html_files' = HtmlAfter(n, d, day, now)
        /\ reports_index' = IndexAfter(n, d, day)
        /\ call' = IF d = <<>> THEN call
                   ELSE Some(CallRecord(d, day, append_txt, now, "returned", "none"))
        /\ clock' = IF d = <<>> THEN clock ELSE now
        /\ report_calls' =
               IF d = <<>> THEN report_calls
               ELSE Append(report_calls,
                           [changes_dict |-> d, date |-> day, append_txt |-> append_txt,
                            etf_codes |-> etf_codes, issuer |-> issuer])

\* detect_changes_batch has returned to daily_update_*: the report of the
\* issuer, then the function returns
ReportUpdate ==
    /\ pc = "returned"
    /\ issuer <= Len(Issuers)
    /\ ReportsWritten(returned[1], Issuers[issuer].append_txt)
    /\ issuer' = issuer + 1
    /\ pc' = "main"
    /\ UNCHANGED <<store_vars, yesterday_holdings, today_holdings, changes, batch_vars,
                   render_vars, ingest_vars,
                   run_day, args, etf_i, log, exit_code, etf_list>>

\* if args.all: generate_consolidated_reports() calls detect_changes_batch
\* for the ETFs of get_active_etfs
Consolidate ==
    /\ pc = "main"
    /\ issuer = Len(Issuers) + 1
    /\ "all" \in args
    /\ etf_codes' = active_etf_codes(etf_list)
    /\ current_date' = AvoidWeekend(run_day)
    /\ i' = 0
    /\ all_changes' = <<>>
    /\ returned' = None
    /\ pc' = "batch"
    /\ UNCHANGED <<store_vars, yesterday_holdings, today_holdings, changes,
                   previous_date, render_vars, file_vars, ingest_vars, main_vars>>

\* detect_changes_batch has returned to generate_consolidated_reports: the
\* report, then main logs that it finished and returns
ReportConsolidated ==
    /\ pc = "returned"
    /\ issuer = Len(Issuers) + 1
    /\ ReportsWritten(returned[1], FALSE)
    /\ exit_code' = Some(0)
    /\ pc' = "finished"
    /\ UNCHANGED <<store_vars, yesterday_holdings, today_holdings, changes, batch_vars,
                   render_vars, ingest_vars,
                   run_day, args, issuer, etf_i, log, etf_list>>

\* without --all main logs that it finished and returns after the last
\* issuer
Finish ==
    /\ pc = "main"
    /\ issuer = Len(Issuers) + 1
    /\ "all" \notin args
    /\ exit_code' = Some(0)
    /\ pc' = "finished"
    /\ UNCHANGED <<store_vars, yesterday_holdings, today_holdings, changes, batch_vars,
                   render_vars, file_vars, ingest_vars,
                   run_day, args, issuer, etf_i, log, report_calls, etf_list>>

\* the exception that left detect_changes_batch reaches main's
\* except Exception: logger.error, logger.exception, sys.exit(1)
MainExcept ==
    /\ pc = "raised"
    /\ log' = Append(log, [level |-> "error", etf_code |-> "main"])
    /\ exit_code' = Some(1)
    /\ pc' = "exited"
    /\ UNCHANGED <<store_vars, yesterday_holdings, today_holdings, changes, batch_vars,
                   render_vars, file_vars, ingest_vars,
                   run_day, args, issuer, etf_i, report_calls, etf_list>>

NextMain ==
    \/ DailyUpdate \/ SkipUpdate \/ UpdateEtf \/ UpdateEtfRaises
    \/ TrackChanges \/ EndUpdate
    \/ Iterate \/ DetectRaises \/ Return
    \/ ReportUpdate \/ Consolidate \/ ReportConsolidated \/ Finish \/ MainExcept

SpecMain == InitMain /\ [][NextMain]_vars

-----------------------------------------------------------------------------
(* Properties of a run of main() *)

\* the ETFs whose snapshot stored by the run differs from the one before
ChangedEtfs ==
    {e \in IssuerEtfs :
        \E d \in {Friday, Saturday} :
            /\ RowsOf(e, d) # {}
            /\ Positions(RowsOf(e, d)) # Positions(RowsOf(e, Thursday))}

\* the date of the consolidated report
RunDate == AvoidWeekend(run_day)

\* the ETFs a sequence of codes names
Range(codes) == {codes[j] : j \in 1 .. Len(codes)}

\* C28: in a run with --all no issuer update generates a report by itself:
\* generate_all_reports is invoked at most once, after main has gone through
\* every issuer's update, for a ChangeSet computed over all active ETFs and
\* with append_txt = false; when the run has finished, the text report, the
\* markdown report, the data bundle, the page and the index entry of the
\* date cover exactly the ETFs of all issuers whose holdings changed, and
\* there is no artifact when none changed.
C28_OneConsolidatedReport ==
    "all" \in args =>
        /\ Len(report_calls) <= 1
        /\ \A j \in 1 .. Len(report_calls) :
               /\ report_calls[j].issuer = Len(Issuers) + 1
               /\ ~report_calls[j].append_txt
               /\ report_calls[j].etf_codes = active_etf_codes(IssuerEtfs)
               /\ report_calls[j].date = RunDate
        /\ pc = "finished" =>
               IF ChangedEtfs = {}
               THEN /\ report_calls = <<>>
                    /\ txt_files[RunDate] = None /\ md_files[RunDate] = None
                    /\ json_files[RunDate] = None /\ html_files[RunDate] = None
                    /\ reports_index = None
               ELSE /\ Len(report_calls) = 1
                    /\ KeysOf(report_calls[1].changes_dict) = ChangedEtfs
                    /\ Range(HeadsOf(txt_files[RunDate][1])) = ChangedEtfs
                    /\ Range(HeadsOf(md_files[RunDate][1])) = ChangedEtfs
                    /\ KeysOf(json_files[RunDate][1].detailed_changes) = ChangedEtfs
                    /\ KeysOf(html_files[RunDate][1].bundle.detailed_changes) = ChangedEtfs
                    /\ Len(EntriesOf(reports_index[1], RunDate)) = 1
                    /\ Range(EntriesOf(reports_index[1], RunDate)[1].etfs) = ChangedEtfs

\* the ETFs of the issuers main selects
SelectedEtfs ==
    UNION {{Issuers[k].etfs[j] : j \in 1 .. Len(Issuers[k].etfs)} :
              k \in {q \in 1 .. Len(Issuers) : Selected(args, q)}}

\* the log has an entry of the ETF's update
Logged(etf_code) == \E j \in 1 .. Len(log) : log[j].etf_code = etf_code

\* C22: the run never terminates abnormally because of a single ETF's
\* scraping, storing or comparison failure: the process never exits with
\* status 1, and once an issuer's update has begun main goes on until it has
\* finished, with every ETF of every selected issuer updated or its failure
\* logged.
C22_SingleFailureDoesNotAbort ==
    /\ exit_code # Some(1)
    /\ pc # "exited"
    /\ pc = "finished" => \A e \in SelectedEtfs : Logged(e)


=============================================================================
